---- MODULE Spec2Model ----
(***************************************************************************)
(* The authenticated request pipeline of OmadaClient (src/omadaClient.ts): *)
(* the token fields, ensureAccessToken / authenticate / setToken /         *)
(* clearToken, and request with its single retry.                          *)
(*                                                                         *)
(* Execution model.  The client runs on the JavaScript event loop: code    *)
(* between two network awaits runs to completion, so one action is the     *)
(* arrival of one event (a call by the host, a token response, a data      *)
(* response) together with every synchronous statement and every           *)
(* continuation that runs before the next network await.  The              *)
(* continuations between a response and the next network call touch the    *)
(* token fields only where the action says so.                             *)
(*                                                                         *)
(* An optional JavaScript value is a sequence: << >> is undefined and      *)
(* <<v>> is the value v.                                                   *)
(***************************************************************************)
EXTENDS Integers, Sequences, FiniteSets, TLC

\* ------------------------------------------------------------------ bounds
\* The clock is observed up to MaxTicks seconds after construction.
MaxTicks == 3

\* ------------------------------------------------------- program constants
TOKEN_EXPIRY_BUFFER_SECONDS == 30
MsPerSecond == 1000

\* --------------------------------------------------------- optional values
Undefined == << >>
Some(v) == <<v>>
Val(o) == o[1]
Opt(S) == {Undefined} \cup {Some(v) : v \in S}

Max(a, b) == IF a >= b THEN a ELSE b

Count(s, e) == Cardinality({i \in DOMAIN s : s[i] = e})

\* ------------------------------------------------------------------ inputs
\* Hosts that may have a send in flight.
Callers == {"c1", "c2"}

\* The host of the sequential specification.
Host == "c1"

\* The request configurations handed to request (method, url, params, data).
Configs ==
    { [method |-> "GET", url |-> "/openapi/v1/omadac/sites", params |-> "page=1", data |-> "none"],
      [method |-> "POST", url |-> "/openapi/v1/omadac/custom", params |-> "none", data |-> "body"] }

AccessTokens == {"A1", "A2"}
RefreshTokens == {"R1"}
ExpiresInValues == {29, 30, 31}

\* TokenResult (the result member of a token response).
TokenResults ==
    [accessToken : Opt(AccessTokens), refreshToken : Opt(RefreshTokens),
     expiresIn : Opt(ExpiresInValues)]

\* What the token endpoint can answer: a transport failure, a non-2xx
\* status, or a 2xx envelope {errorCode, result?}.
TokenResponses ==
    { [kind |-> "network", status |-> Undefined, errorCode |-> Undefined, result |-> Undefined],
      [kind |-> "http", status |-> Some(500), errorCode |-> Undefined, result |-> Undefined],
      [kind |-> "http", status |-> Some(200), errorCode |-> Some(-1), result |-> Undefined],
      [kind |-> "http", status |-> Some(200), errorCode |-> Some(0), result |-> Undefined] }
    \cup
    { [kind |-> "http", status |-> Some(200), errorCode |-> Some(0), result |-> Some(t)] :
        t \in TokenResults }

AuthErrorCodes == {-44106, -44111, -44112, -44113, -44114, -44116}

DataErrorCodes == {0, -1} \cup AuthErrorCodes

\* A data response whose body, if any, holds an errorCode and neither msg
\* nor result.
Envelope(kind, status, errorCode) ==
    [kind |-> kind, status |-> status, errorCode |-> errorCode,
     msg |-> Undefined, result |-> Undefined]

\* What a data endpoint can answer: a transport failure (an axios error
\* without a response), an exception that is not an axios error, or an HTTP
\* response with a status and a body whose envelope may hold an errorCode.
DataResponses ==
    { Envelope("network", Undefined, Undefined),
      Envelope("exception", Undefined, Undefined),
      Envelope("http", Some(401), Undefined),
      Envelope("http", Some(403), Undefined),
      Envelope("http", Some(401), Some(-44112)),
      Envelope("http", Some(404), Undefined) }
    \cup
    { Envelope("http", Some(200), e) : e \in Opt(DataErrorCodes) }
    \cup
    { Envelope("http", Some(500), e) : e \in Opt({-1, -44106, -44116}) }

\* response.data of a data response: the envelope {errorCode, msg?, result?}.
Body(r) == [errorCode |-> r.errorCode, msg |-> r.msg, result |-> r.result]

\* ------------------------------------------------------------------- state
VARIABLES
    accessToken,     \* OmadaClient.accessToken
    refreshToken,    \* OmadaClient.refreshToken
    tokenExpiresAt,  \* OmadaClient.tokenExpiresAt (epoch ms)
    now,             \* Date.now()
    pc,              \* per caller: idle, await_refresh, await_grant, await_data, done
    config,          \* per caller: the config argument of request
    retry,           \* per caller: the retry argument of the running request
    site,            \* per caller: which ensureAccessToken call is running
                     \*   "entry" (line 229) or "reauth" (line 271)
    trace,           \* per caller: the calls made by the current send, in order
    sent,            \* per caller: the data requests dispatched by the current send
    received,        \* per caller: the data responses received by the current send
    outcome,         \* per caller: what the send returned or threw
    lastReply,       \* per caller: the last token response of the current send
    server,          \* how the list endpoint answers (ServerModes)
    params,          \* the params argument of the running fetchPaginated
    fetching,        \* fetchPaginated: idle, running, returned, thrown
    records,         \* fetchPaginated: records
    page,            \* fetchPaginated: page
    totalRows,       \* fetchPaginated: totalRows
    calls,           \* the params of every get made by the running fetchPaginated
    listOutcome,     \* what fetchPaginated returned or threw
    resolver,        \* the lookup being made: none, getDevice, getClient
    identifier,      \* the identifier argument of the lookup
    entities,        \* the collection the lookup searches (devices or clients)
    found,           \* what the lookup returned or threw
    given,           \* the siteId argument of the running operation
    toolOutcome,     \* what the tool handler returned or threw
    toolLog,         \* the records the wrapper of the running tool has logged
    path,            \* the path argument of the running fetchPaginated
    siteId,          \* OmadaClient.siteId, the configured default site
    env,             \* process.env, the settings main starts with
    phase,           \* main: none (not run), main, connecting, connected, failed
    exitCode,        \* process.exitCode
    options,         \* the options main constructed the OmadaClient with
    log,             \* per caller: the records the current send handed to the logger
    httpServer,      \* the HTTP transport: its endpoint path, the request being
                     \*   handled, the response, and what reached the MCP transport
    observed         \* per caller: each call of the send with its answer and the
                     \*   token fields after it, kept to compare two sends

tokenVars == <<accessToken, refreshToken, tokenExpiresAt>>
callVars == <<pc, config, retry, site, trace, sent, received, outcome, lastReply, log>>
listVars == <<server, params, fetching, records, page, totalRows, calls, listOutcome, path>>
vars == <<accessToken, refreshToken, tokenExpiresAt, now, pc, config, retry, site,
          trace, sent, received, outcome, lastReply, log,
          server, params, fetching, records, page, totalRows, calls, listOutcome,
          resolver, identifier, entities, found, given, toolOutcome, toolLog, path, siteId,
          env, phase, exitCode, options, observed, httpServer>>
lookupVars == <<resolver, identifier, entities, found, given, toolOutcome, toolLog>>
hostVars == <<siteId, env, phase, exitCode, options, observed, httpServer>>

\* The three token fields as one value.
Token == [accessToken |-> accessToken, refreshToken |-> refreshToken,
          tokenExpiresAt |-> tokenExpiresAt]

NoOutcome == [kind |-> "none", value |-> Undefined]
NoConfig == [method |-> "", url |-> "", params |-> "", data |-> ""]

\* No fetchPaginated is running: its locals have their initial values.
NoFetch ==
    /\ fetching = "idle"
    /\ records = << >>
    /\ page = 1
    /\ totalRows = Undefined
    /\ calls = << >>
    /\ listOutcome = NoOutcome
    /\ path = ""

\* No getDevice or getClient is being made.
NoLookup ==
    /\ resolver = "none"
    /\ identifier = ""
    /\ entities = << >>
    /\ found = NoOutcome
    /\ given = Undefined
    /\ toolOutcome = NoOutcome
    /\ toolLog = << >>

\* The settings main reads.
Settings ==
    {"OMADA_BASE_URL", "OMADA_CLIENT_ID", "OMADA_CLIENT_SECRET", "OMADA_OMADAC_ID",
     "OMADA_CONTROLLER_ID", "OMADA_SITE_ID", "OMADA_STRICT_SSL", "OMADA_TIMEOUT",
     "OMADA_PROXY_URL"}

\* An environment with none of the settings.
NoEnv == [k \in Settings |-> Undefined]

\* No HTTP transport is started (the stdio entry point).
\* No signal has arrived: the shuttingDown flag of main, the signals
\* received, those handed to createShutdownHandler, where that handler
\* stands, the close calls it has made and how mcpServer.close() ended.
NoShutdown ==
    [shuttingDown |-> FALSE, signals |-> << >>, handled |-> << >>, handler |-> "none",
     closing |-> << >>, mcpServer |-> "open"]

NoHttp ==
    [setting |-> Undefined, endpointPath |-> << >>, pc |-> "none", req |-> Undefined,
     res |-> Undefined, pathname |-> Undefined, transport |-> "none",
     shutdown |-> NoShutdown]

\* main does not run: the host constructs the client itself.
NoStartup ==
    /\ httpServer = NoHttp
    /\ env = NoEnv
    /\ phase = "none"
    /\ exitCode = Undefined
    /\ options = Undefined
    /\ observed = [c \in Callers |-> << >>]

\* A list endpoint that may answer anything (total 0), or one that pages a
\* collection of total items as the API documents.
AnyServer == [mode |-> "any", total |-> 0]

\* fetchPaginated's default params argument: {}.
EmptyParams == [k \in {} |-> 0]

\* -------------------------------------------------------- token operations
\* JavaScript truthiness of an optional string and of an optional number.
TruthyString(o) == o # Undefined /\ Val(o) # ""
TruthyNumber(o) == o # Undefined /\ Val(o) # 0

\* clearToken leaving the refresh token in place.
clearToken_keepRefresh ==
    [accessToken |-> Undefined, refreshToken |-> refreshToken, tokenExpiresAt |-> Undefined]

clearToken ==
    [accessToken |-> Undefined, refreshToken |-> Undefined, tokenExpiresAt |-> Undefined]

\* setToken without the Math.max clamp of line 206.
setToken_noClamp(token, t) ==
    LET expiresInSeconds == IF token.expiresIn # Undefined THEN Val(token.expiresIn) ELSE 0
        expiresInMs == (expiresInSeconds - TOKEN_EXPIRY_BUFFER_SECONDS) * MsPerSecond
    IN  [accessToken |-> token.accessToken, refreshToken |-> token.refreshToken,
         tokenExpiresAt |-> Some(t + expiresInMs)]

\* setToken keeping the held refresh token when the response carries none.
setToken_keepingRefresh(token, t) ==
    LET expiresInSeconds == IF token.expiresIn # Undefined THEN Val(token.expiresIn) ELSE 0
        expiresInMs == Max(expiresInSeconds - TOKEN_EXPIRY_BUFFER_SECONDS, 0) * MsPerSecond
    IN  [accessToken |-> token.accessToken,
         refreshToken |-> IF token.refreshToken = Undefined THEN refreshToken
                          ELSE token.refreshToken,
         tokenExpiresAt |-> Some(t + expiresInMs)]

setToken(token, t) ==
    LET expiresInSeconds == IF token.expiresIn # Undefined THEN Val(token.expiresIn) ELSE 0
        expiresInMs == Max(expiresInSeconds - TOKEN_EXPIRY_BUFFER_SECONDS, 0) * MsPerSecond
    IN  [accessToken |-> token.accessToken, refreshToken |-> token.refreshToken,
         tokenExpiresAt |-> Some(t + expiresInMs)]

\* ensureSuccess throwing only when the envelope has no errorCode.
ensureSuccessThrows_onlyMissing(response) == response.errorCode = Undefined

\* ensureSuccess throws unless the envelope's errorCode is exactly 0.
ensureSuccessThrows(response) == response.errorCode # Some(0)

\* ensureSuccess returns result ?? {}.
ensureSuccess(response) ==
    IF response.result # Undefined THEN Val(response.result)
    ELSE [accessToken |-> Undefined, refreshToken |-> Undefined, expiresIn |-> Undefined]

\* axios rejects a call on a transport failure and on a status outside 2xx.
HttpRejects(r) == r.kind # "http" \/ Val(r.status) < 200 \/ Val(r.status) >= 300

\* authenticate throws when the post rejects or ensureSuccess throws.
authenticateThrows(r) == HttpRejects(r) \/ ensureSuccessThrows(r)

\* TokenValid with the expiry comparison inverted.
TokenValid_inverted(tok, t) ==
    /\ TruthyString(tok.accessToken)
    /\ TruthyNumber(tok.tokenExpiresAt)
    /\ t > Val(tok.tokenExpiresAt)

\* The first statement of ensureAccessToken: the held token is still good.
TokenValid(tok, t) ==
    /\ TruthyString(tok.accessToken)
    /\ TruthyNumber(tok.tokenExpiresAt)
    /\ t < Val(tok.tokenExpiresAt)

isAuthErrorCode(errorCode) ==
    IF errorCode = Undefined THEN FALSE ELSE Val(errorCode) \in AuthErrorCodes

isAxiosError(r) == r.kind \in {"http", "network"}

\* SessionInvalid taking every 4xx/5xx status for a rejected session.
SessionInvalid_anyErrorStatus(r) ==
    \/ (r.status # Undefined /\ Val(r.status) >= 400)
    \/ isAuthErrorCode(r.errorCode)

\* SessionInvalid without the 403 case.
SessionInvalid_no403(r) ==
    \/ r.status = Some(401)
    \/ isAuthErrorCode(r.errorCode)

\* The condition of line 269.
SessionInvalid(r) ==
    \/ r.status = Some(401)
    \/ r.status = Some(403)
    \/ isAuthErrorCode(r.errorCode)

\* The Authorization header value: the access token, or '' when undefined.
Authorization(tok) == IF tok.accessToken = Undefined THEN "" ELSE Val(tok.accessToken)

\* ------------------------------------------------------------------ logging
\* error.message of a rejected data request.
ErrorMessage(r) ==
    CASE r.kind = "network" -> "Network Error"
      [] r.kind = "exception" -> "exception"
      [] r.status = Some(401) -> "Request failed with status code 401"
      [] r.status = Some(403) -> "Request failed with status code 403"
      [] r.status = Some(404) -> "Request failed with status code 404"
      [] OTHER -> "Request failed with status code 500"

\* A request record that holds the whole requestConfig, headers included.
RequestRecord_withHeaders(cfg, tok) ==
    [level |-> "info", message |-> "Omada request",
     fields |-> [method |-> cfg.method, url |-> cfg.url, params |-> cfg.params,
                 siteId |-> Undefined,
                 headers |-> [Authorization |-> Authorization(tok)]]]

\* Lines 241-246: logger.info('Omada request', {method, url, params,
\* siteId}); no params of the model has a siteId key.
RequestRecord(cfg, tok) ==
    [level |-> "info", message |-> "Omada request",
     fields |-> [method |-> cfg.method, url |-> cfg.url, params |-> cfg.params,
                 siteId |-> Undefined]]

\* Lines 250-254 and 257-261: logger.info('Omada response', {method, url,
\* status}) when the call resolved, logger.error('Omada request failed',
\* {method, url, message}) when it rejected.
OutcomeRecord(cfg, r) ==
    IF ~HttpRejects(r)
    THEN [level |-> "info", message |-> "Omada response",
          fields |-> [method |-> cfg.method, url |-> cfg.url, status |-> Val(r.status)]]
    ELSE [level |-> "error", message |-> "Omada request failed",
          fields |-> [method |-> cfg.method, url |-> cfg.url, message |-> ErrorMessage(r)]]

\* The records of caller c after a turn that left it at p having sent snt
\* and received rcv: the outcome record of an answer that arrived, then
\* the request record of a request that was dispatched.
Logged(c, tok, p, snt, rcv) ==
    LET answered == IF Len(rcv) > Len(received[c])
                    THEN Append(log[c], OutcomeRecord(config[c], rcv[Len(rcv)]))
                    ELSE log[c]
    IN  IF p = "idle" THEN << >>
        ELSE IF Len(snt) > Len(sent[c])
        THEN Append(answered, RequestRecord(snt[Len(snt)].config, tok))
        ELSE answered

\* ------------------------------------------------------------- transitions
\* Assign every variable of caller c and the token fields.
Step(c, tok, p, cfg, rt, st, tr, snt, rcv, out) ==
    /\ accessToken' = tok.accessToken
    /\ refreshToken' = tok.refreshToken
    /\ tokenExpiresAt' = tok.tokenExpiresAt
    /\ pc' = [pc EXCEPT ![c] = p]
    /\ config' = [config EXCEPT ![c] = cfg]
    /\ retry' = [retry EXCEPT ![c] = rt]
    /\ site' = [site EXCEPT ![c] = st]
    /\ trace' = [trace EXCEPT ![c] = tr]
    /\ sent' = [sent EXCEPT ![c] = snt]
    /\ received' = [received EXCEPT ![c] = rcv]
    /\ outcome' = [outcome EXCEPT ![c] = out]
    /\ log' = [log EXCEPT ![c] = Logged(c, tok, p, snt, rcv)]
    /\ now' = now

\* Lines 231-249: build the request with the Authorization header and
\* dispatch it.
Dispatch(c, tok, cfg, rt, tr, rcv) ==
    Step(c, tok, "await_data", cfg, rt, "entry", Append(tr, "request"),
         Append(sent[c], [config |-> cfg, authorization |-> Authorization(tok)]),
         rcv, NoOutcome)

\* ensureAccessTokenAtEntry going to the client_credentials grant without
\* trying the held refresh token.
ensureAccessTokenAtEntry_noRefresh(c, tok, cfg, rt, tr, rcv) ==
    IF TokenValid(tok, now)
    THEN Dispatch(c, tok, cfg, rt, Append(tr, "ensure"), rcv)
    ELSE Step(c, tok, "await_grant", cfg, rt, "entry",
              tr \o <<"ensure", "client_credentials">>, sent[c], rcv, NoOutcome)

\* ensureAccessTokenAtEntry with a guard: no token call while another
\* caller's token call is outstanding.
ensureAccessTokenAtEntry_guarded(c, tok, cfg, rt, tr, rcv) ==
    IF \/ TokenValid(tok, now)
       \/ \E d \in Callers \ {c} : pc[d] \in {"await_refresh", "await_grant"}
    THEN Dispatch(c, tok, cfg, rt, Append(tr, "ensure"), rcv)
    ELSE IF TruthyString(tok.refreshToken)
    THEN Step(c, tok, "await_refresh", cfg, rt, "entry",
              tr \o <<"ensure", "refresh_token">>, sent[c], rcv, NoOutcome)
    ELSE Step(c, tok, "await_grant", cfg, rt, "entry",
              tr \o <<"ensure", "client_credentials">>, sent[c], rcv, NoOutcome)

\* ensureAccessToken up to its first network call, or to its return when
\* the token is still good; then(tok, tr) is what runs after that return.
\* Lines 157-172 with the synchronous head of authenticate (lines 174-195).
ensureAccessTokenAtEntry(c, tok, cfg, rt, tr, rcv) ==
    IF TokenValid(tok, now)
    THEN Dispatch(c, tok, cfg, rt, Append(tr, "ensure"), rcv)
    ELSE IF TruthyString(tok.refreshToken)
    THEN Step(c, tok, "await_refresh", cfg, rt, "entry",
              tr \o <<"ensure", "refresh_token">>, sent[c], rcv, NoOutcome)
    ELSE Step(c, tok, "await_grant", cfg, rt, "entry",
              tr \o <<"ensure", "client_credentials">>, sent[c], rcv, NoOutcome)

\* request(config, retry) from its entry to its first network call.
request(c, tok, cfg, rt, tr, rcv) ==
    ensureAccessTokenAtEntry(c, tok, cfg, rt, tr, rcv)

\* replay passing retry = true.
replay_retrying(c, tok, tr, rcv) ==
    request(c, tok, config[c], TRUE, tr, rcv)

\* Line 272: the one replay, request(config, false).
replay(c, tok, tr, rcv) ==
    request(c, tok, config[c], FALSE, tr, rcv)

\* The ensureAccessToken call of line 271, made right after clearToken;
\* when it returns, line 272 replays.
ensureAccessTokenAtReauth(c, tok, tr, rcv) ==
    IF TokenValid(tok, now)
    THEN replay(c, tok, Append(tr, "ensure"), rcv)
    ELSE IF TruthyString(tok.refreshToken)
    THEN Step(c, tok, "await_refresh", config[c], retry[c], "reauth",
              tr \o <<"ensure", "refresh_token">>, sent[c], rcv, NoOutcome)
    ELSE Step(c, tok, "await_grant", config[c], retry[c], "reauth",
              tr \o <<"ensure", "client_credentials">>, sent[c], rcv, NoOutcome)

\* What runs when the ensureAccessToken call of caller c returns: line 231
\* onwards for the call of line 229, line 272 for the call of line 271.
AfterEnsure(c, tok) ==
    IF site[c] = "entry"
    THEN Dispatch(c, tok, config[c], retry[c], trace[c], received[c])
    ELSE replay(c, tok, trace[c], received[c])

\* The send fails: request throws to the host.
Throw(c, tok, kind, r, rcv) ==
    Step(c, tok, "done", config[c], retry[c], site[c], trace[c], sent[c], rcv,
         [kind |-> kind, value |-> r])

\* ----------------------------------------------------------------- actions
Init ==
    /\ accessToken = Undefined
    /\ refreshToken = Undefined
    /\ tokenExpiresAt = Undefined
    /\ now = MsPerSecond
    /\ pc = [c \in Callers |-> "idle"]
    /\ config = [c \in Callers |-> NoConfig]
    /\ retry = [c \in Callers |-> TRUE]
    /\ site = [c \in Callers |-> "entry"]
    /\ trace = [c \in Callers |-> << >>]
    /\ sent = [c \in Callers |-> << >>]
    /\ received = [c \in Callers |-> << >>]
    /\ outcome = [c \in Callers |-> NoOutcome]
    /\ lastReply = [c \in Callers |-> Undefined]
    /\ log = [c \in Callers |-> << >>]
    /\ NoFetch
    /\ server = AnyServer
    /\ params = EmptyParams
    /\ NoLookup
    /\ siteId = Undefined
    /\ NoStartup

\* The host calls callApi / get: request(config) with retry defaulted to
\* true; one host, one send at a time.
Send(c) ==
    /\ c = Host
    /\ UNCHANGED <<lookupVars, hostVars>>
    /\ pc[c] = "idle"
    /\ fetching = "idle"
    /\ \E cfg \in Configs : request(c, Token, cfg, TRUE, << >>, << >>)
    /\ UNCHANGED <<lastReply, listVars>>

\* OnRefreshResponse without the catch of line 166: a failed refresh is
\* thrown to the host and the token is kept.
OnRefreshResponse_throwing(c, r) ==
    /\ pc[c] = "await_refresh"
    /\ lastReply' = [lastReply EXCEPT ![c] = Some([grantType |-> "refresh_token", response |-> r])]
    /\ IF authenticateThrows(r)
       THEN Throw(c, Token, "auth", r, received[c])
       ELSE AfterEnsure(c, setToken(ensureSuccess(r), now))

\* authenticate('refresh_token') is answered with r (lines 191-198, and the
\* catch of ensureAccessToken, lines 166-171).
OnRefreshResponse(c, r) ==
    /\ pc[c] = "await_refresh"
    /\ lastReply' = [lastReply EXCEPT ![c] = Some([grantType |-> "refresh_token", response |-> r])]
    /\ IF authenticateThrows(r)
       THEN \* catch of line 166: clearToken, then line 171
            Step(c, clearToken, "await_grant", config[c], retry[c], site[c],
                 trace[c] \o <<"clearToken", "client_credentials">>,
                 sent[c], received[c], NoOutcome)
       ELSE AfterEnsure(c, setToken(ensureSuccess(r), now))

\* OnGrantResponse going on to the replay when the grant made after the
\* invalidation fails.
OnGrantResponse_replaying(c, r) ==
    /\ pc[c] = "await_grant"
    /\ lastReply' = [lastReply EXCEPT ![c] = Some([grantType |-> "client_credentials", response |-> r])]
    /\ IF authenticateThrows(r)
       THEN IF site[c] = "reauth"
            THEN AfterEnsure(c, Token)
            ELSE Throw(c, Token, "auth", r, received[c])
       ELSE AfterEnsure(c, setToken(ensureSuccess(r), now))

\* authenticate('client_credentials') is answered with r (lines 191-198).
OnGrantResponse(c, r) ==
    /\ pc[c] = "await_grant"
    /\ lastReply' = [lastReply EXCEPT ![c] = Some([grantType |-> "client_credentials", response |-> r])]
    /\ IF authenticateThrows(r)
       THEN Throw(c, Token, "auth", r, received[c])
       ELSE AfterEnsure(c, setToken(ensureSuccess(r), now))

\* OnDataResponse running ensureSuccess on the body before returning it.
OnDataResponse_checkingEnvelope(c, r) ==
    /\ pc[c] = "await_data"
    /\ UNCHANGED lastReply
    /\ LET rcv == Append(received[c], r) IN
         IF ~HttpRejects(r) /\ ~ensureSuccessThrows(r)
         THEN Step(c, Token, "done", config[c], retry[c], site[c], trace[c], sent[c], rcv,
                   [kind |-> "ok", value |-> Body(r)])
         ELSE IF ~HttpRejects(r) \/ ~retry[c] \/ ~isAxiosError(r)
         THEN Throw(c, Token, "error", r, rcv)
         ELSE IF SessionInvalid(r)
         THEN ensureAccessTokenAtReauth(c, clearToken, Append(trace[c], "clearToken"), rcv)
         ELSE Throw(c, Token, "error", r, rcv)

\* OnDataResponse clearing the token only when it is still the one the
\* rejected request was sent with.
OnDataResponse_ownTokenOnly(c, r) ==
    /\ pc[c] = "await_data"
    /\ UNCHANGED lastReply
    /\ LET rcv == Append(received[c], r)
           own == Authorization(Token) = sent[c][Len(sent[c])].authorization
       IN
         IF ~HttpRejects(r)
         THEN Step(c, Token, "done", config[c], retry[c], site[c], trace[c], sent[c], rcv,
                   [kind |-> "ok", value |-> Body(r)])
         ELSE IF ~retry[c] \/ ~isAxiosError(r)
         THEN Throw(c, Token, "error", r, rcv)
         ELSE IF SessionInvalid(r)
         THEN ensureAccessTokenAtReauth(c, IF own THEN clearToken ELSE Token,
                                        Append(trace[c], "clearToken"), rcv)
         ELSE Throw(c, Token, "error", r, rcv)

\* OnDataResponse replaying whatever the retry argument says.
OnDataResponse_ignoringRetry(c, r) ==
    /\ pc[c] = "await_data"
    /\ UNCHANGED lastReply
    /\ LET rcv == Append(received[c], r) IN
         IF ~HttpRejects(r)
         THEN Step(c, Token, "done", config[c], retry[c], site[c], trace[c], sent[c], rcv,
                   [kind |-> "ok", value |-> Body(r)])
         ELSE IF ~isAxiosError(r)
         THEN Throw(c, Token, "error", r, rcv)
         ELSE IF SessionInvalid(r)
         THEN ensureAccessTokenAtReauth(c, clearToken, Append(trace[c], "clearToken"), rcv)
         ELSE Throw(c, Token, "error", r, rcv)

\* The data request is answered with r (lines 249-276).
OnDataResponse(c, r) ==
    /\ pc[c] = "await_data"
    /\ UNCHANGED lastReply
    /\ LET rcv == Append(received[c], r) IN
         IF ~HttpRejects(r)
         THEN Step(c, Token, "done", config[c], retry[c], site[c], trace[c], sent[c], rcv,
                   [kind |-> "ok", value |-> Body(r)])
         ELSE IF ~retry[c] \/ ~isAxiosError(r)
         THEN Throw(c, Token, "error", r, rcv)
         ELSE IF SessionInvalid(r)
         THEN ensureAccessTokenAtReauth(c, clearToken, Append(trace[c], "clearToken"), rcv)
         ELSE Throw(c, Token, "error", r, rcv)

\* The answer to authenticate('refresh_token') arrives.
RefreshResponse(c) ==
    /\ \E r \in TokenResponses : OnRefreshResponse(c, r)
    /\ UNCHANGED <<lookupVars, hostVars>>
    /\ UNCHANGED listVars

\* The answer to authenticate('client_credentials') arrives.
GrantResponse(c) ==
    /\ \E r \in TokenResponses : OnGrantResponse(c, r)
    /\ UNCHANGED <<lookupVars, hostVars>>
    /\ UNCHANGED listVars

\* The answer to the data request arrives.
DataResponse(c) ==
    /\ \E r \in DataResponses : OnDataResponse(c, r)
    /\ UNCHANGED <<lookupVars, hostVars>>
    /\ UNCHANGED listVars

\* The host takes the result; the caller can send again.
Return(c) ==
    /\ pc[c] = "done"
    /\ UNCHANGED <<lookupVars, hostVars>>
    /\ fetching = "idle"
    /\ Step(c, Token, "idle", NoConfig, TRUE, "entry", << >>, << >>, << >>, NoOutcome)
    /\ lastReply' = [lastReply EXCEPT ![c] = Undefined]
    /\ UNCHANGED listVars

\* Time passes.
Tick ==
    /\ now < MaxTicks * MsPerSecond
    /\ UNCHANGED <<lookupVars, hostVars>>
    /\ now' = now + MsPerSecond
    /\ UNCHANGED <<tokenVars, callVars, listVars>>

Next ==
    \/ \E c \in Callers : Send(c)
    \/ \E c \in Callers : RefreshResponse(c)
    \/ \E c \in Callers : GrantResponse(c)
    \/ \E c \in Callers : DataResponse(c)
    \/ \E c \in Callers : Return(c)
    \/ Tick

Spec == Init /\ [][Next]_vars

TypeOK ==
    /\ accessToken \in Opt(AccessTokens)
    /\ refreshToken \in Opt(RefreshTokens)
    /\ tokenExpiresAt = Undefined \/ (Len(tokenExpiresAt) = 1 /\ Val(tokenExpiresAt) \in Nat)
    /\ now \in Nat
    /\ pc \in [Callers -> {"idle", "await_refresh", "await_grant", "await_data", "done"}]
    /\ retry \in [Callers -> BOOLEAN]
    /\ site \in [Callers -> {"entry", "reauth"}]

\* ------------------------------------------------------------ claim helpers
\* The session-invalid application codes, as the claims enumerate them.
SessionInvalidCodes == {-44106, -44111, -44112, -44113, -44114, -44116}

HasStatus401or403(r) == r.status # Undefined /\ Val(r.status) \in {401, 403}
HasSessionInvalidCode(r) == r.errorCode # Undefined /\ Val(r.errorCode) \in SessionInvalidCodes
Is2xx(r) == r.kind = "http" /\ Val(r.status) >= 200 /\ Val(r.status) < 300

IsTokenCall(e) == e \in {"refresh_token", "client_credentials"}

\* Position of the first data request in a trace (0 when there is none).
FirstRequest(tr) ==
    IF \E i \in DOMAIN tr : tr[i] = "request"
    THEN CHOOSE i \in DOMAIN tr : tr[i] = "request" /\ \A j \in 1..(i - 1) : tr[j] # "request"
    ELSE 0

\* The first data request of the send was followed by clearToken and a new
\* ensureAccessToken call: the invalidate-and-retry path.
TookRetryPath(c) ==
    LET i == FirstRequest(trace[c])
    IN  /\ i > 0
        /\ Len(trace[c]) >= i + 2
        /\ trace[c][i + 1] = "clearToken"
        /\ trace[c][i + 2] = "ensure"

\* ---------------------------------------------------------------------- C1
\* C1: when the first data request of a send fails with HTTP 401 or 403, the
\* token is cleared, the client authenticates again and, once that has
\* succeeded, dispatches the same config a second and last time; a successful
\* replay hands the caller the replay's body and no error.
C1_ReplayOnce ==
    \A c \in Callers :
        (Len(received[c]) >= 1 /\ HasStatus401or403(received[c][1])) =>
            /\ TookRetryPath(c)
            /\ Len(sent[c]) <= 2
            /\ (pc[c] = "await_grant" /\ Len(trace[c]) = FirstRequest(trace[c]) + 3)
                   => Token = clearToken
            /\ Len(sent[c]) = 2 =>
                   /\ sent[c][2].config = sent[c][1].config
                   /\ sent[c][1].config = config[c]
            /\ pc[c] = "done" =>
                   \/ outcome[c].kind = "auth" /\ Len(sent[c]) = 1
                   \/ /\ Len(sent[c]) = 2
                      /\ Len(received[c]) = 2
                      /\ Is2xx(received[c][2]) =>
                             outcome[c] = [kind |-> "ok", value |-> Body(received[c][2])]

C1_Witness ==
    \E c \in Callers :
        /\ pc[c] = "done"
        /\ Len(received[c]) = 2
        /\ received[c][1].status = Some(403)
        /\ outcome[c].kind = "ok"
        /\ Len(sent[c]) = 2

\* ---------------------------------------------------------------------- C2
\* C2: every first response that carries a session-invalid application code,
\* a 2xx response included, puts the send on the invalidate-and-retry path
\* (stated for requests dispatched with an access token).
C2_RetryOnSessionInvalidCode ==
    \A c \in Callers :
        (/\ Len(received[c]) >= 1
         /\ sent[c][1].authorization # ""
         /\ HasSessionInvalidCode(received[c][1]))
        => TookRetryPath(c)

\* ---------------------------------------------------------------------- C3
\* C3: a send dispatches at most two data requests, and a replay that fails
\* again with 401/403 or a session-invalid code throws that response's error
\* in the same step, leaving the token fields and the list of calls as they
\* were.
C3_AtMostOneRetry ==
    [][\A c \in Callers :
          /\ Len(sent'[c]) <= 2
          /\ Count(trace'[c], "request") <= 2
          /\ (Len(received[c]) = 1 /\ Len(received'[c]) = 2
                /\ (HasStatus401or403(received'[c][2]) \/ HasSessionInvalidCode(received'[c][2]))
                /\ ~Is2xx(received'[c][2]))
             => /\ pc'[c] = "done"
                /\ outcome'[c] = [kind |-> "error", value |-> received'[c][2]]
                /\ UNCHANGED tokenVars
                /\ trace'[c] = trace[c]
                /\ sent'[c] = sent[c]]_vars

C3_Witness ==
    \E c \in Callers :
        /\ pc[c] = "done"
        /\ Len(received[c]) = 2
        /\ received[c][2].status = Some(401)
        /\ outcome[c].kind = "error"

\* ---------------------------------------------------------------------- C4
\* The token response carries an access token under errorCode 0.
UsableReply(r) ==
    /\ Is2xx(r)
    /\ r.errorCode = Some(0)
    /\ r.result # Undefined
    /\ Val(r.result).accessToken # Undefined

\* Caller c waits for the answer to the token call made right after the
\* invalidation of its first data request.
AwaitsReauth(c) ==
    /\ pc[c] = "await_grant"
    /\ Len(sent[c]) = 1
    /\ Len(received[c]) = 1
    /\ Len(trace[c]) = FirstRequest(trace[c]) + 3

\* C4: between the failed data request and its replay exactly one call is
\* made to the token endpoint: when the call made after the invalidation is
\* answered with a token, whatever its expiresIn, the replay is dispatched
\* with no further token call.
C4_ExactlyOneReauth ==
    [][\A c \in Callers :
          (AwaitsReauth(c) /\ trace'[c] # trace[c] /\ UsableReply(Val(lastReply'[c]).response))
          => /\ Len(sent'[c]) = 2
             /\ trace'[c] = trace[c] \o <<"ensure", "request">>]_vars

\* ---------------------------------------------------------------------- C5
OtherFailure(r) == ~Is2xx(r) /\ ~HasStatus401or403(r) /\ ~HasSessionInvalidCode(r)

\* C5: a data response that is a failure other than 401/403 and carries no
\* session-invalid code is thrown in the step that receives it: no further
\* data request, no call to the token endpoint, the token fields unchanged;
\* when it answers the first data request, that request is the only one.
C5_OtherFailuresSurface ==
    [][\A c \in Callers :
          (Len(received'[c]) = Len(received[c]) + 1
             /\ OtherFailure(received'[c][Len(received'[c])]))
          => /\ pc'[c] = "done"
             /\ outcome'[c] = [kind |-> "error", value |-> received'[c][Len(received'[c])]]
             /\ UNCHANGED tokenVars
             /\ trace'[c] = trace[c]
             /\ sent'[c] = sent[c]
             /\ Len(received'[c]) = 1 =>
                    /\ Len(sent'[c]) = 1
                    /\ Count(trace'[c], "request") = 1
                    /\ trace'[c][Len(trace'[c])] = "request"]_vars

C5_Witness ==
    \E c \in Callers :
        /\ pc[c] = "done"
        /\ Len(received[c]) = 1
        /\ received[c][1].status = Some(500)
        /\ outcome[c].kind = "error"
        /\ accessToken # Undefined

\* ---------------------------------------------------------------------- C6
\* A token is held and the clock is before its stored expiry.
Held == accessToken # Undefined /\ tokenExpiresAt # Undefined /\ now < Val(tokenExpiresAt)

\* C6: a send that starts while a token is held and now < expiresAt makes no
\* call to the token endpoint, leaves the three token fields unchanged and
\* dispatches the data request with the held token; when that request
\* succeeds the whole send has made no authentication call.
C6_TokenReuse ==
    [][\A c \in Callers :
          /\ (pc[c] = "idle" /\ pc'[c] # "idle" /\ Held)
             => /\ pc'[c] = "await_data"
                /\ UNCHANGED tokenVars
                /\ trace'[c] = <<"ensure", "request">>
                /\ sent'[c] = <<[config |-> config'[c], authorization |-> Val(accessToken)]>>
          /\ (pc[c] = "await_data" /\ pc'[c] = "done" /\ Len(received'[c]) = 1
                /\ trace[c] = <<"ensure", "request">>)
             => /\ trace'[c] = <<"ensure", "request">>
                /\ UNCHANGED tokenVars]_vars

C6_Witness ==
    \E c \in Callers :
        /\ pc[c] = "done"
        /\ outcome[c].kind = "ok"
        /\ trace[c] = <<"ensure", "request">>
        /\ sent[c][1].authorization = "A1"

\* ---------------------------------------------------------------------- C7
\* The token endpoint accepted the call: a 2xx envelope with errorCode 0.
ReplyAccepted(r) == Is2xx(r) /\ r.errorCode = Some(0)

C7_Order ==
    \A c \in Callers :
        /\ \A i \in DOMAIN trace[c] :
              /\ trace[c][i] = "refresh_token" =>
                    /\ i > 1 /\ trace[c][i - 1] = "ensure"
                    /\ i < Len(trace[c]) => trace[c][i + 1] \in {"clearToken", "ensure", "request"}
              /\ trace[c][i] = "client_credentials" =>
                    /\ \/ i > 1 /\ trace[c][i - 1] = "ensure"
                       \/ i > 3 /\ trace[c][i - 1] = "clearToken" /\ trace[c][i - 2] = "refresh_token"
                    /\ i < Len(trace[c]) => trace[c][i + 1] \in {"ensure", "request"}
        /\ pc[c] = "await_refresh" => refreshToken # Undefined
        /\ (pc[c] = "done" /\ outcome[c].kind = "auth") =>
              trace[c][Len(trace[c])] = "client_credentials"

C7_Step ==
    \A c \in Callers :
        /\ (pc[c] = "idle" /\ pc'[c] # "idle" /\ ~Held) =>
              trace'[c] = IF refreshToken # Undefined
                          THEN <<"ensure", "refresh_token">>
                          ELSE <<"ensure", "client_credentials">>
        /\ (pc[c] = "await_refresh" /\ trace'[c] # trace[c]) =>
              IF ReplyAccepted(Val(lastReply'[c]).response)
              THEN /\ Len(trace'[c]) > Len(trace[c])
                   /\ trace'[c][Len(trace[c]) + 1] \in {"ensure", "request"}
              ELSE /\ trace'[c] = trace[c] \o <<"clearToken", "client_credentials">>
                   /\ pc'[c] = "await_grant"
        /\ (pc[c] = "await_grant" /\ (pc'[c] # pc[c] \/ trace'[c] # trace[c])
              /\ ~ReplyAccepted(Val(lastReply'[c]).response)) =>
              /\ pc'[c] = "done"
              /\ outcome'[c].kind = "auth"
              /\ trace'[c] = trace[c]

\* C7: one ensureAccessToken call on a missing or expired token attempts the
\* refresh_token grant first when a refresh token is held and, when it is
\* accepted, makes no client_credentials grant; with no refresh token, or
\* after a failed refresh, it makes one client_credentials grant; it never
\* refreshes twice and never repeats a failed client_credentials grant.
C7_RefreshThenGrant == []C7_Order /\ [][C7_Step]_vars

C7_Witness ==
    \E c \in Callers :
        /\ Len(trace[c]) >= 5
        /\ SubSeq(trace[c], 1, 5) =
              <<"ensure", "refresh_token", "clearToken", "client_credentials", "request">>
        /\ pc[c] = "done"
        /\ outcome[c].kind = "ok"

\* ---------------------------------------------------------------------- C8
\* C8: whenever ensureAccessToken returns and the data request is dispatched
\* (on a held token, or on a token response that carries an access token,
\* whatever its expiresIn), a token is held and the clock is before its
\* stored expiry.
C8_ReturnedTokenIsLive ==
    [][\A c \in Callers :
          (Len(sent'[c]) > Len(sent[c])
             /\ (lastReply'[c] = Undefined \/ UsableReply(Val(lastReply'[c]).response)))
          => /\ accessToken' # Undefined
             /\ tokenExpiresAt' # Undefined
             /\ now' < Val(tokenExpiresAt')]_vars

\* ---------------------------------------------------------------------- C9
\* The envelope is an error or carries no usable token.
NoUsableToken(r) ==
    \/ r.errorCode # Some(0)
    \/ r.result = Undefined
    \/ Val(r.result).accessToken = Undefined

\* C9: a token response whose errorCode is non-zero, or whose errorCode is 0
\* but which carries no access token, installs no token; when it answers the
\* client_credentials grant the send fails with the authentication error,
\* and when it answers the refresh the client_credentials grant follows.
C9_AuthErrorOnUnusableReply ==
    \A c \in Callers :
        (lastReply[c] # Undefined /\ NoUsableToken(Val(lastReply[c]).response)) =>
            IF Val(lastReply[c]).grantType = "client_credentials"
            THEN pc[c] = "done" /\ outcome[c].kind = "auth"
            ELSE pc[c] = "await_grant" /\ Token = clearToken

\* --------------------------------------------------------------------- C10
\* An expiry is stored without an access token: what a token response with
\* errorCode 0 and no accessToken leaves behind (see C9).
HalfInstalled == accessToken = Undefined /\ tokenExpiresAt # Undefined

\* C10: while the client_credentials grant of an ensureAccessToken call is
\* outstanding no token state is held, and whenever ensureAccessToken has
\* failed, accessToken, refreshToken and tokenExpiresAt are all empty
\* (stated for the states that hold a whole token or none).
C10_FailedEnsureLeavesNoToken ==
    \A c \in Callers :
        ~HalfInstalled =>
            /\ pc[c] = "await_grant" => Token = clearToken
            /\ (pc[c] = "done" /\ outcome[c].kind = "auth") => Token = clearToken

-----------------------------------------------------------------------------
\* Expiry computation (setToken, lines 201-208) over a wide range of
\* declared lifetimes.

\* expiresIn values around the buffer, including zero and negative ones.
WideExpiresIn == (0 - 2) .. (TOKEN_EXPIRY_BUFFER_SECONDS + 3)

\* Token endpoint answers for the expiry specification: one failure, and an
\* accepted token for each declared lifetime (or none declared).
WideTokenResponses ==
    { [kind |-> "network", status |-> Undefined, errorCode |-> Undefined, result |-> Undefined] }
    \cup
    { [kind |-> "http", status |-> Some(200), errorCode |-> Some(0),
       result |-> Some([accessToken |-> Some("A2"), refreshToken |-> Undefined,
                        expiresIn |-> e])] : e \in Opt(WideExpiresIn) }

\* A token stored at the first instant with no lifetime left, holding a
\* refresh token (what setToken leaves for expiresIn <= 30).
ExpiredToken ==
    [accessToken |-> Some("A1"), refreshToken |-> Some("R1"),
     tokenExpiresAt |-> Some(MsPerSecond)]

\* The client at any instant of the clock, holding no token or an expired one.
InitSetToken ==
    /\ \E tok \in {clearToken, ExpiredToken} :
         /\ accessToken = tok.accessToken
         /\ refreshToken = tok.refreshToken
         /\ tokenExpiresAt = tok.tokenExpiresAt
    /\ now \in { k * MsPerSecond : k \in 1..MaxTicks }
    /\ pc = [c \in Callers |-> "idle"]
    /\ config = [c \in Callers |-> NoConfig]
    /\ retry = [c \in Callers |-> TRUE]
    /\ site = [c \in Callers |-> "entry"]
    /\ trace = [c \in Callers |-> << >>]
    /\ sent = [c \in Callers |-> << >>]
    /\ received = [c \in Callers |-> << >>]
    /\ outcome = [c \in Callers |-> NoOutcome]
    /\ lastReply = [c \in Callers |-> Undefined]
    /\ log = [c \in Callers |-> << >>]
    /\ NoFetch
    /\ server = AnyServer
    /\ params = EmptyParams
    /\ NoLookup
    /\ siteId = Undefined
    /\ NoStartup

RefreshWide(c) ==
    /\ \E r \in WideTokenResponses : OnRefreshResponse(c, r)
    /\ UNCHANGED <<lookupVars, hostVars>>
    /\ UNCHANGED listVars

GrantWide(c) ==
    /\ \E r \in WideTokenResponses : OnGrantResponse(c, r)
    /\ UNCHANGED <<lookupVars, hostVars>>
    /\ UNCHANGED listVars

NextSetToken ==
    \E c \in Callers :
        \/ Send(c)
        \/ RefreshWide(c)
        \/ GrantWide(c)

SpecSetToken == InitSetToken /\ [][NextSetToken]_vars

\* The step in which caller c's token call is answered with an accepted
\* envelope (2xx, errorCode 0), so that setToken runs.
TokenStored(c) ==
    /\ pc[c] \in {"await_refresh", "await_grant"}
    /\ (pc'[c] # pc[c] \/ trace'[c] # trace[c])
    /\ lastReply'[c] # Undefined
    /\ ReplyAccepted(Val(lastReply'[c]).response)

\* The lifetime the accepted reply declares, a missing one counting as 0.
DeclaredExpiresIn(c) ==
    LET res == Val(lastReply'[c]).response.result IN
    IF res = Undefined THEN 0
    ELSE IF Val(res).expiresIn = Undefined THEN 0
    ELSE Val(Val(res).expiresIn)

\* C11 (amended): after every accepted grant or refresh reply,
\* expiresAt = now + max(expiresIn - 30, 0) * 1000, a missing expiresIn
\* counting as 0; expiresAt is never earlier than the time the token was
\* stored, and never later than now + max(expiresIn, 0) * 1000.
C11_ExpiryComputation ==
    [][\A c \in Callers :
         TokenStored(c) =>
           LET e == DeclaredExpiresIn(c) IN
           /\ tokenExpiresAt' # Undefined
           /\ Val(tokenExpiresAt') = now + (IF e - 30 > 0 THEN e - 30 ELSE 0) * 1000
           /\ Val(tokenExpiresAt') >= now
           /\ Val(tokenExpiresAt') <= now + (IF e > 0 THEN e ELSE 0) * 1000]_vars

\* C11 as stated: the same, with the upper limit now + expiresIn * 1000 for
\* every declared lifetime.
C11_AsStated ==
    [][\A c \in Callers :
         TokenStored(c) =>
           LET e == DeclaredExpiresIn(c) IN
           /\ tokenExpiresAt' # Undefined
           /\ Val(tokenExpiresAt') = now + (IF e - 30 > 0 THEN e - 30 ELSE 0) * 1000
           /\ Val(tokenExpiresAt') >= now
           /\ Val(tokenExpiresAt') <= now + e * 1000]_vars

\* A token whose declared lifetime is below the buffer has been stored with
\* the clamped expiry, after the clock has advanced.
C11_Witness ==
    \E c \in Callers :
        /\ pc[c] = "await_data"
        /\ lastReply[c] # Undefined
        /\ ReplyAccepted(Val(lastReply[c]).response)
        /\ Val(Val(lastReply[c]).response.result).expiresIn = Some(29)
        /\ now > MsPerSecond
        /\ tokenExpiresAt = Some(now)

-----------------------------------------------------------------------------
\* Invalidation (clearToken, lines 210-214).

\* In every trace, what follows a clearToken is the client_credentials grant,
\* either at once (catch of ensureAccessToken) or as the token call of the
\* next ensureAccessToken; a refresh_token call never follows it.
C12_GrantAfterClear ==
    \A c \in Callers :
        \A i \in DOMAIN trace[c] :
            trace[c][i] = "clearToken" =>
                /\ i < Len(trace[c])
                /\ \/ trace[c][i + 1] = "client_credentials"
                   \/ /\ trace[c][i + 1] = "ensure"
                      /\ i + 1 < Len(trace[c])
                      /\ trace[c][i + 2] = "client_credentials"

\* A step that runs clearToken leaves the three token fields empty.
C12_ClearStep ==
    \A c \in Callers :
        Count(trace'[c], "clearToken") > Count(trace[c], "clearToken") =>
            /\ accessToken' = Undefined
            /\ refreshToken' = Undefined
            /\ tokenExpiresAt' = Undefined
            /\ pc'[c] = "await_grant"

\* C12: clearToken empties accessToken, refreshToken and tokenExpiresAt
\* together, and the ensureAccessToken that follows an invalidation makes the
\* client_credentials grant, never a refresh_token call, whatever token was
\* held before.
C12_ClearForcesGrant == []C12_GrantAfterClear /\ [][C12_ClearStep]_vars

\* A live token that came with a refresh token has been invalidated after a
\* rejected data request, and the client_credentials grant is outstanding.
C12_Witness ==
    \E c \in Callers :
        /\ AwaitsReauth(c)
        /\ trace[c] = <<"ensure", "client_credentials", "request",
                        "clearToken", "ensure", "client_credentials">>
        /\ sent[c][1].authorization # ""
        /\ lastReply[c] # Undefined
        /\ UsableReply(Val(lastReply[c]).response)
        /\ Val(Val(lastReply[c]).response.result).refreshToken = Some("R1")
        /\ Val(Val(lastReply[c]).response.result).expiresIn = Some(31)
        /\ accessToken = Undefined /\ refreshToken = Undefined /\ tokenExpiresAt = Undefined

-----------------------------------------------------------------------------
\* The Authorization header of dispatched requests (request, lines 228-249).

\* The last ensureAccessToken call of a trace has no data request after it
\* other than the final one.
EnsuredBeforeLast(tr) ==
    /\ Len(tr) >= 2
    /\ tr[Len(tr)] = "request"
    /\ \E i \in 1..(Len(tr) - 1) :
          /\ tr[i] = "ensure"
          /\ \A j \in (i + 1)..(Len(tr) - 1) : tr[j] # "request"

\* C13: every data request dispatched by request is preceded by an
\* ensureAccessToken call and carries in its Authorization header a non-empty
\* access token equal to the accessToken stored at the moment of dispatch; no
\* request is dispatched with an empty or undefined token.
C13_DispatchCarriesToken ==
    [][\A c \in Callers :
          Len(sent'[c]) > Len(sent[c]) =>
              /\ EnsuredBeforeLast(trace'[c])
              /\ accessToken' # Undefined
              /\ sent'[c][Len(sent'[c])].authorization # ""
              /\ sent'[c][Len(sent'[c])].authorization = Val(accessToken')]_vars

-----------------------------------------------------------------------------
\* Pagination (fetchPaginated, lines 101-130).

DEFAULT_PAGE_SIZE == 200

\* The last page number the model lets fetchPaginated request.
MaxPages == 3

Min(a, b) == IF a <= b THEN a ELSE b

\* Object spread {...a, ...b}: the keys of both, b's value where both have one.
Spread(a, b) ==
    [k \in (DOMAIN a) \cup (DOMAIN b) |-> IF k \in DOMAIN b THEN b[k] ELSE a[k]]

\* The params arguments of fetchPaginated: the default {} that listSites,
\* listDevices and listClients use, and one that names page and pageSize.
ParamsArgs == {EmptyParams, [page |-> 3, pageSize |-> 1]}

\* The query of a page request with the caller's params spread last.
PageParams_callerLast(prm, p) ==
    Spread([page |-> p, pageSize |-> DEFAULT_PAGE_SIZE], prm)

\* Lines 111-115: { ...params, page, pageSize: DEFAULT_PAGE_SIZE }.
PageParams(prm, p) ==
    Spread(prm, [page |-> p, pageSize |-> DEFAULT_PAGE_SIZE])

\* The path listSites hands to fetchPaginated (buildOmadaPath('/sites')).
ListPath == "/openapi/v1/omadac/sites"

\* Line 217: get(path, params) is request({method: 'GET', url: path, params}).
PageConfig(pth, prm, p) ==
    [method |-> "GET", url |-> pth, params |-> PageParams(prm, p), data |-> "none"]

\* The collection sizes of the servers that page as documented.
Totals == {1, 199, 200, 201, 400, 401}

ServerModes == {AnyServer} \cup { [mode |-> "contract", total |-> T] : T \in Totals }

\* n consecutive items of the server's collection, after the first `from`.
Items(from, n) == [i \in 1..n |-> from + i]

\* A 2xx list response with errorCode 0 and a result {data?, totalRows?}.
PageBody(data, total) ==
    [kind |-> "http", status |-> Some(200), errorCode |-> Some(0), msg |-> Undefined,
     result |-> Some([data |-> data, totalRows |-> total])]

\* What a server that honours the paging contract answers to the query q:
\* the items of ((page-1)*pageSize, min(page*pageSize, T)] and totalRows = T.
ContractPage(q, T) ==
    LET lo == (q["page"] - 1) * q["pageSize"]
        hi == Min(q["page"] * q["pageSize"], T)
    IN  PageBody(Some(Items(lo, Max(hi - lo, 0))), Some(T))

\* The page lengths and declared totals of a server that answers anything.
AnyPageLengths == {0, 1, 2}
AnyTotals == {0, 1, 2, 3}

\* What a server bound to no contract may answer to a request for page p:
\* a page of any length with any or no totalRows, no data, or no result.
AnyPages(p) ==
    { PageBody(d, t) :
        d \in {Undefined} \cup { Some(Items((p - 1) * DEFAULT_PAGE_SIZE, n)) : n \in AnyPageLengths },
        t \in Opt(AnyTotals) }
    \cup { Envelope("http", Some(200), Some(0)) }

\* Failing answers to a page request: transport failure, 401, 404, and 2xx
\* envelopes with a non-zero errorCode, with and without msg.
ListFailures ==
    { Envelope("network", Undefined, Undefined),
      Envelope("http", Some(401), Undefined),
      Envelope("http", Some(404), Undefined),
      Envelope("http", Some(200), Some(-1)),
      Envelope("http", Some(200), Some(-44112)),
      [kind |-> "http", status |-> Some(200), errorCode |-> Some(-1),
       msg |-> Some("Site not found"), result |-> Undefined] }

\* The token endpoint during a fetch: a failure, or a token that outlives it.
ListTokenResponses ==
    { [kind |-> "network", status |-> Undefined, errorCode |-> Undefined, result |-> Undefined],
      [kind |-> "http", status |-> Some(200), errorCode |-> Some(0),
       result |-> Some([accessToken |-> Some("A1"), refreshToken |-> Undefined,
                        expiresIn |-> Some(31)])] }

\* The answers the list endpoint can give to the request caller c last sent.
PageResponsesFor(c) ==
    LET q == sent[c][Len(sent[c])].config.params IN
    (IF server.mode = "contract"
     THEN {ContractPage(q, server.total)}
     ELSE AnyPages(q["page"]))
    \cup ListFailures

\* ensureSuccess<PaginatedResult<T>>: result ?? {}.
ensureSuccessOfPage(response) ==
    IF response.result # Undefined THEN Val(response.result)
    ELSE [data |-> Undefined, totalRows |-> Undefined]

\* The Error ensureSuccess throws (line 151).
ensureSuccessError(response) ==
    [error |-> IF response.msg # Undefined THEN Val(response.msg)
               ELSE "Omada API request failed"]

\* The loop going on only while a declared total has not been reached.
Continues_needsTotal(pageData, total, count) ==
    /\ Len(pageData) # 0
    /\ TruthyNumber(total)
    /\ count < Val(total)

\* The loop going on after every page that has items, whatever total is
\* declared.
Continues_ignoringTotal(pageData, total, count) == Len(pageData) # 0

\* The loop without the break of lines 123-125.
Continues_noBreak(pageData, total, count) ==
    ~TruthyNumber(total) \/ count < Val(total)

\* Lines 123-127: another page is requested unless this one was empty (break)
\* or the while condition !totalRows || records.length < totalRows is false.
Continues(pageData, total, count) ==
    /\ Len(pageData) # 0
    /\ (~TruthyNumber(total) \/ count < Val(total))

\* fetchPaginated(pth, prm) up to its first await (lines 105-115): the locals
\* are initialised and the first page is requested.
fetchPaginatedOf(c, pth, prm) ==
    /\ c = Host
    /\ pc[c] = "idle"
    /\ fetching = "idle"
    /\ path' = pth
    /\ params' = prm
    /\ calls' = <<PageParams(prm, 1)>>
    /\ request(c, Token, PageConfig(pth, prm, 1), TRUE, << >>, << >>)
    /\ fetching' = "running"
    /\ records' = << >>
    /\ page' = 1
    /\ totalRows' = Undefined
    /\ listOutcome' = NoOutcome
    /\ UNCHANGED <<lastReply, server>>

\* listSites calls fetchPaginated on its path (lines 69-71).
fetchPaginated(c) ==
    /\ \E prm \in ParamsArgs : fetchPaginatedOf(c, ListPath, prm)
    /\ UNCHANGED <<lookupVars, hostVars>>

\* The token endpoint answers the grant made for a page request.
PageGrant(c) ==
    /\ fetching = "running"
    /\ UNCHANGED <<lookupVars, hostVars>>
    /\ \E r \in ListTokenResponses : OnGrantResponse(c, r)
    /\ UNCHANGED listVars

\* The list endpoint answers a page request.
PageResponse(c) ==
    /\ fetching = "running"
    /\ UNCHANGED <<lookupVars, hostVars>>
    /\ pc[c] = "await_data"
    /\ \E r \in PageResponsesFor(c) : OnDataResponse(c, r)
    /\ UNCHANGED listVars

\* fetchPaginated handing over the records gathered so far instead of
\* throwing.
fetchThrows_partial(err) ==
    /\ fetching' = "returned"
    /\ listOutcome' = [kind |-> "ok", value |-> records]
    /\ UNCHANGED <<tokenVars, now, callVars, server, params, records, page, totalRows, calls, path>>

\* fetchPaginated ends by throwing err; its locals are out of reach.
fetchThrows(err) ==
    /\ fetching' = "thrown"
    /\ listOutcome' = [kind |-> "error", value |-> err]
    /\ UNCHANGED <<tokenVars, now, callVars, server, params, records, page, totalRows, calls, path>>

\* The await of line 111 resumes (lines 111-127): a rejected get propagates;
\* otherwise ensureSuccess, the page is appended, and the loop either
\* requests the next page or returns records.
PageDone(c) ==
    /\ fetching = "running"
    /\ UNCHANGED <<lookupVars, hostVars>>
    /\ pc[c] = "done"
    /\ IF outcome[c].kind # "ok"
       THEN fetchThrows(outcome[c].value)
       ELSE IF ensureSuccessThrows(outcome[c].value)
       THEN fetchThrows(ensureSuccessError(outcome[c].value))
       ELSE LET result == ensureSuccessOfPage(outcome[c].value)
                pageData == IF result.data # Undefined THEN Val(result.data) ELSE << >>
                total == IF result.totalRows # Undefined THEN result.totalRows ELSE totalRows
                recs == records \o pageData
            IN  /\ records' = recs
                /\ page' = page + 1
                /\ totalRows' = total
                /\ UNCHANGED <<server, params, lastReply, path>>
                /\ IF Continues(pageData, total, Len(recs))
                   THEN /\ page + 1 <= MaxPages
                        /\ calls' = Append(calls, PageParams(params, page + 1))
                        /\ request(c, Token, PageConfig(path, params, page + 1), TRUE,
                                   trace[c], received[c])
                        /\ UNCHANGED <<fetching, listOutcome>>
                   ELSE /\ fetching' = "returned"
                        /\ listOutcome' = [kind |-> "ok", value |-> recs]
                        /\ UNCHANGED <<tokenVars, now, pc, config, retry, site, trace,
                                       sent, received, outcome, calls, log>>

\* The list operation hands its result or error to the host.
ListReturn(c) ==
    /\ fetching \in {"returned", "thrown"}
    /\ UNCHANGED <<lookupVars, hostVars>>
    /\ pc[c] = "done"
    /\ Step(c, Token, "idle", NoConfig, TRUE, "entry", << >>, << >>, << >>, NoOutcome)
    /\ lastReply' = [lastReply EXCEPT ![c] = Undefined]
    /\ fetching' = "idle"
    /\ records' = << >>
    /\ page' = 1
    /\ totalRows' = Undefined
    /\ calls' = << >>
    /\ listOutcome' = NoOutcome
    /\ path' = ""
    /\ UNCHANGED <<server, params>>

\* The client as constructed, facing one of the list servers.
InitPaginate ==
    /\ accessToken = Undefined
    /\ refreshToken = Undefined
    /\ tokenExpiresAt = Undefined
    /\ now = MsPerSecond
    /\ pc = [c \in Callers |-> "idle"]
    /\ config = [c \in Callers |-> NoConfig]
    /\ retry = [c \in Callers |-> TRUE]
    /\ site = [c \in Callers |-> "entry"]
    /\ trace = [c \in Callers |-> << >>]
    /\ sent = [c \in Callers |-> << >>]
    /\ received = [c \in Callers |-> << >>]
    /\ outcome = [c \in Callers |-> NoOutcome]
    /\ lastReply = [c \in Callers |-> Undefined]
    /\ log = [c \in Callers |-> << >>]
    /\ NoFetch
    /\ server \in ServerModes
    /\ params = EmptyParams
    /\ NoLookup
    /\ siteId = Undefined
    /\ NoStartup

NextPaginate ==
    \E c \in Callers :
        \/ fetchPaginated(c)
        \/ PageGrant(c)
        \/ PageResponse(c)
        \/ PageDone(c)
        \/ ListReturn(c)

SpecPaginate == InitPaginate /\ [][NextPaginate]_vars

-----------------------------------------------------------------------------
\* Claims about fetchPaginated.

\* The answer to a page request has reached fetchPaginated as a 2xx envelope
\* with errorCode 0, and the loop body is about to run on it.
PageArrived(c) ==
    /\ fetching = "running"
    /\ pc[c] = "done"
    /\ outcome[c].kind = "ok"
    /\ outcome[c].value.errorCode = Some(0)

\* The items of an envelope (none when result or data is absent) and the
\* total it declares (none when result or totalRows is absent).
DataOf(b) ==
    IF b.result = Undefined THEN << >>
    ELSE IF Val(b.result).data = Undefined THEN << >>
    ELSE Val(Val(b.result).data)

DeclaredTotal(b) ==
    IF b.result = Undefined THEN Undefined ELSE Val(b.result).totalRows

\* C14: against a server that holds T >= 1 items and pages them as
\* documented, fetchPaginated requests pages 1, 2, ... consecutively with
\* pageSize 200 whatever params it was given, makes at most ceil(T/200) get
\* calls, fails only when a get failed or brought a non-zero errorCode, and
\* returns only after exactly ceil(T/200) calls, with exactly the T items in
\* server order.
C14_ContractFetch ==
    server.mode = "contract" =>
        LET T == server.total
            K == (T + 199) \div 200
        IN  /\ Len(calls) <= K
            /\ \A i \in DOMAIN calls : calls[i] = [page |-> i, pageSize |-> 200]
            /\ fetching = "returned" =>
                  /\ Len(calls) = K
                  /\ listOutcome = [kind |-> "ok", value |-> [i \in 1..T |-> i]]
            /\ fetching = "thrown" =>
                  \/ outcome[Host].kind # "ok"
                  \/ outcome[Host].value.errorCode # Some(0)

\* A collection of 400 items has been fetched in two calls, by a caller whose
\* params named page and pageSize.
C14_Witness ==
    /\ server = [mode |-> "contract", total |-> 400]
    /\ DOMAIN params = {"page", "pageSize"}
    /\ fetching = "returned"
    /\ Len(calls) = 2
    /\ Len(listOutcome.value) = 400

\* C15: when the first page has no items (data empty or absent, result
\* absent, whatever totalRows says), fetchPaginated returns the empty list,
\* throws nothing and has made exactly one get call.
C15_EmptyFirstPage ==
    [][(PageArrived(Host) /\ page = 1 /\ DataOf(outcome[Host].value) = << >>) =>
          /\ fetching' = "returned"
          /\ listOutcome' = [kind |-> "ok", value |-> << >>]
          /\ Len(calls') = 1
          /\ sent' = sent]_vars

\* An empty first page that declared three rows ended the fetch with no items.
C15_Witness ==
    /\ fetching = "returned"
    /\ listOutcome = [kind |-> "ok", value |-> << >>]
    /\ totalRows = Some(3)
    /\ Len(calls) = 1

\* The total in force after the arrived page: the one it declares, or else
\* the one kept from the earlier pages.
LatestTotal(c) ==
    IF DeclaredTotal(outcome[c].value) # Undefined
    THEN DeclaredTotal(outcome[c].value)
    ELSE totalRows

\* C16: after each page fetchPaginated stops if and only if the page had no
\* items or the number of items gathered has reached the most recently
\* declared total, for every declared total including 0; the total in force
\* is that of the latest page that declared one.
C16_StopRule ==
    [][PageArrived(Host) =>
          LET pageData == DataOf(outcome[Host].value)
              latest == LatestTotal(Host)
              reached == latest # Undefined /\ Len(records) + Len(pageData) >= Val(latest)
          IN  /\ totalRows' = latest
              /\ fetching' = "returned" <=> (Len(pageData) = 0 \/ reached)]_vars

\* C17: while no page has declared a total, fetchPaginated requests the next
\* page after every page that has items and returns at the first page that
\* has none; it has returned without a total only after an empty page.
C17_UndeclaredStep ==
    (PageArrived(Host) /\ totalRows = Undefined
        /\ DeclaredTotal(outcome[Host].value) = Undefined) =>
        IF DataOf(outcome[Host].value) = << >>
        THEN fetching' = "returned"
        ELSE /\ fetching' = "running"
             /\ pc'[Host] # "done"
             /\ Len(calls') = Len(calls) + 1
             /\ calls'[Len(calls')]["page"] = page + 1
             /\ records' = records \o DataOf(outcome[Host].value)

C17_UndeclaredInv ==
    (fetching = "returned" /\ totalRows = Undefined) =>
        DataOf(outcome[Host].value) = << >>

C17_OnlyEmptyPageStops == []C17_UndeclaredInv /\ [][C17_UndeclaredStep]_vars

\* Two pages with items and no total have been gathered and the third page
\* has been requested.
C17_Witness ==
    /\ fetching = "running"
    /\ pc[Host] = "await_data"
    /\ Len(calls) = 3
    /\ totalRows = Undefined
    /\ Len(records) = 4

\* C18: when the get of any page fails, fetchPaginated throws that error,
\* requests no further page and hands over none of the items gathered; after
\* a failed fetch nothing is requested until the next fetchPaginated, which
\* starts at page 1 with no items.
C18_FailStep ==
    /\ (fetching = "running" /\ pc[Host] = "done" /\ outcome[Host].kind # "ok") =>
          /\ fetching' = "thrown"
          /\ listOutcome' = [kind |-> "error", value |-> outcome[Host].value]
          /\ calls' = calls
          /\ sent' = sent
    /\ fetching = "thrown" =>
          /\ fetching' = "idle"
          /\ sent'[Host] = << >>
    /\ (fetching = "idle" /\ fetching' # "idle") =>
          /\ calls' = <<[page |-> 1, pageSize |-> 200]>>
          /\ page' = 1
          /\ records' = << >>
          /\ totalRows' = Undefined

C18_FailInv ==
    fetching = "thrown" =>
        /\ listOutcome.kind = "error"
        /\ pc[Host] = "done"

C18_AllOrNothing == []C18_FailInv /\ [][C18_FailStep]_vars

\* The request for page 2 failed after its one replay, with the items of
\* page 1 already gathered.
C18_Witness ==
    /\ fetching = "thrown"
    /\ Len(calls) = 2
    /\ Len(records) = 2
    /\ outcome[Host].kind = "error"
    /\ ~retry[Host]
    /\ listOutcome = [kind |-> "error", value |-> outcome[Host].value]

\* A 2xx envelope whose errorCode is neither 0 nor a session-invalid code.
OtherErrorCode(b) ==
    /\ b.errorCode # Undefined
    /\ Val(b.errorCode) # 0
    /\ Val(b.errorCode) \notin SessionInvalidCodes

\* C19: a list response transported with a 2xx status whose errorCode is
\* non-zero and not a session-invalid code is handed to fetchPaginated without
\* a replay, and makes it throw an Error with the envelope's msg (a fixed
\* message when there is none), the token untouched and no further page
\* requested.
C19_EnvelopeStep ==
    /\ (fetching = "running" /\ pc[Host] = "await_data" /\ pc'[Host] # "await_data"
          /\ Is2xx(received'[Host][Len(received'[Host])])
          /\ OtherErrorCode(received'[Host][Len(received'[Host])])) =>
          /\ pc'[Host] = "done"
          /\ outcome'[Host].kind = "ok"
          /\ sent' = sent
          /\ UNCHANGED tokenVars
    /\ (fetching = "running" /\ pc[Host] = "done" /\ outcome[Host].kind = "ok"
          /\ OtherErrorCode(outcome[Host].value)) =>
          /\ fetching' = "thrown"
          /\ listOutcome' =
                [kind |-> "error",
                 value |-> [error |-> IF outcome[Host].value.msg # Undefined
                                      THEN Val(outcome[Host].value.msg)
                                      ELSE "Omada API request failed"]]
          /\ sent' = sent
          /\ calls' = calls
          /\ UNCHANGED tokenVars

C19_EnvelopeErrorSurfaces == [][C19_EnvelopeStep]_vars

\* Page 2 came back 200 with errorCode -1 and a msg; the fetch threw that msg
\* after one request per page.
C19_Witness ==
    /\ fetching = "thrown"
    /\ listOutcome = [kind |-> "error", value |-> [error |-> "Site not found"]]
    /\ Len(calls) = 2
    /\ Len(sent[Host]) = 2
    /\ accessToken = Some("A1")

-----------------------------------------------------------------------------
\* Lookup by identifier (getDevice, getClient, lines 87-95).

\* The longest collection the lookup specification draws.
MaxEntities == 3

\* Hardware addresses and stable ids; "m1" is both a mac and an id.
Macs == {"m1", "m2"}
Ids == {"d1", "m1"}
Identifiers == {"m1", "m2", "d1", "zz"}

\* OmadaDeviceInfo and OmadaClientInfo, as far as the lookups read them.
Devices == [mac : Macs, deviceId : Ids]
Clients == [mac : Macs, id : Ids]

\* The sequences over S of length at most n.
SeqsUpTo(S, n) == UNION { [1..k -> S] : k \in 0..n }

\* The predicates handed to Array.prototype.find (lines 89 and 94).
deviceMatches_macOnly(device, ident) == device.mac = ident
deviceMatches(device, ident) == device.mac = ident \/ device.deviceId = ident
clientMatches(client, ident) == client.mac = ident \/ client.id = ident

\* Array.prototype.find: the first element, from index i on, that satisfies
\* the predicate; undefined when there is none.
RECURSIVE findDevice(_, _, _)
findDevice(devices, ident, i) ==
    IF i > Len(devices) THEN Undefined
    ELSE IF deviceMatches(devices[i], ident) THEN Some(devices[i])
    ELSE findDevice(devices, ident, i + 1)

RECURSIVE findClient(_, _, _)
findClient(clients, ident, i) ==
    IF i > Len(clients) THEN Undefined
    ELSE IF clientMatches(clients[i], ident) THEN Some(clients[i])
    ELSE findClient(clients, ident, i + 1)

\* A lookup is about to search a fetched collection.
InitLookup ==
    /\ accessToken = Undefined
    /\ refreshToken = Undefined
    /\ tokenExpiresAt = Undefined
    /\ now = MsPerSecond
    /\ pc = [c \in Callers |-> "idle"]
    /\ config = [c \in Callers |-> NoConfig]
    /\ retry = [c \in Callers |-> TRUE]
    /\ site = [c \in Callers |-> "entry"]
    /\ trace = [c \in Callers |-> << >>]
    /\ sent = [c \in Callers |-> << >>]
    /\ received = [c \in Callers |-> << >>]
    /\ outcome = [c \in Callers |-> NoOutcome]
    /\ lastReply = [c \in Callers |-> Undefined]
    /\ log = [c \in Callers |-> << >>]
    /\ NoFetch
    /\ server = AnyServer
    /\ params = EmptyParams
    /\ resolver \in {"getDevice", "getClient"}
    /\ identifier \in Identifiers
    /\ entities \in SeqsUpTo(IF resolver = "getDevice" THEN Devices ELSE Clients, MaxEntities)
    /\ found = NoOutcome
    /\ given = Undefined
    /\ toolOutcome = NoOutcome
    /\ toolLog = << >>
    /\ siteId = Undefined
    /\ NoStartup

\* Line 89: devices.find(...) on the fetched devices.
getDevice ==
    /\ resolver = "getDevice"
    /\ found = NoOutcome
    /\ found' = [kind |-> "ok", value |-> findDevice(entities, identifier, 1)]
    /\ UNCHANGED <<tokenVars, now, callVars, listVars, hostVars, resolver, identifier, entities,
                   given, toolOutcome, toolLog>>

\* Line 94: clients.find(...) on the fetched clients.
getClient ==
    /\ resolver = "getClient"
    /\ found = NoOutcome
    /\ found' = [kind |-> "ok", value |-> findClient(entities, identifier, 1)]
    /\ UNCHANGED <<tokenVars, now, callVars, listVars, hostVars, resolver, identifier, entities,
                   given, toolOutcome, toolLog>>

NextLookup == getDevice \/ getClient

SpecLookup == InitLookup /\ [][NextLookup]_vars

\* The stable id of an entity: deviceId for a device, id for a client.
StableId(e) == IF resolver = "getDevice" THEN e.deviceId ELSE e.id

\* The positions of the collection whose mac or stable id is the identifier.
MatchingPositions ==
    { i \in DOMAIN entities :
        entities[i].mac = identifier \/ StableId(entities[i]) = identifier }

\* C20: over a fetched collection, getDevice / getClient return the first
\* entity in server order whose mac or whose stable id equals the identifier,
\* and return the absent value, with no error, when none matches.
C20_FirstMatch ==
    found # NoOutcome =>
        /\ found.kind = "ok"
        /\ IF MatchingPositions = {}
           THEN found.value = Undefined
           ELSE \E i \in MatchingPositions :
                   /\ \A j \in MatchingPositions : i <= j
                   /\ found.value = Some(entities[i])

\* A device was found by its stable id, behind one that does not match and
\* before a later one that matches by mac.
C20_Witness ==
    /\ resolver = "getDevice"
    /\ identifier = "m1"
    /\ Len(entities) = 3
    /\ entities[1] = [mac |-> "m2", deviceId |-> "d1"]
    /\ entities[2] = [mac |-> "m2", deviceId |-> "m1"]
    /\ entities[3] = [mac |-> "m1", deviceId |-> "d1"]
    /\ found = [kind |-> "ok", value |-> Some(entities[2])]

-----------------------------------------------------------------------------
\* The site-scoped operations (listDevices, listClients, getDevice,
\* getClient, lines 73-95) and their tools (server.ts, lines 223-276).

\* Site ids: the configured default, and what a call may give.
ConfiguredSites == {"s1"}
GivenSites == {"s2", ""}

SiteOperations == {"listDevices", "listClients", "getDevice", "getClient"}

\* The identifiers the lookups of this specification are made with.
GetIdentifiers == {"m1", "d1", "zz"}

\* resolveSiteId preferring the configured default.
resolveSiteId_defaultFirst(arg) ==
    IF TruthyString(siteId) THEN siteId
    ELSE IF TruthyString(arg) THEN arg
    ELSE Undefined

\* resolveSiteId (lines 137-147): the given site id if truthy, else the
\* configured one if truthy; the absent value stands for the throw.
resolveSiteId(arg) ==
    IF TruthyString(arg) THEN arg
    ELSE IF TruthyString(siteId) THEN siteId
    ELSE Undefined

\* The Error resolveSiteId throws (line 146).
NoSiteError ==
    [error |-> "A site id must be provided either in the environment or as a parameter."]

\* buildOmadaPath(`/sites/${encodeURIComponent(site)}/devices`) and the same
\* for clients (lines 75-84), for the site ids of this specification, which
\* encodeURIComponent leaves as they are.
DevicesPath(s) ==
    CASE s = "s1" -> "/openapi/v1/omadac/sites/s1/devices"
      [] s = "s2" -> "/openapi/v1/omadac/sites/s2/devices"

ClientsPath(s) ==
    CASE s = "s1" -> "/openapi/v1/omadac/sites/s1/clients"
      [] s = "s2" -> "/openapi/v1/omadac/sites/s2/clients"

SitePath(op, s) ==
    IF op \in {"listDevices", "getDevice"} THEN DevicesPath(s) ELSE ClientsPath(s)

\* The servers of this specification page collections of 0, 1 and 2 items.
SiteServers == { [mode |-> "contract", total |-> T] : T \in {0, 1, 2} }

\* Item k of the server's device and client collections.
DeviceAt(k) ==
    IF k % 2 = 1 THEN [mac |-> "m2", deviceId |-> "d1"] ELSE [mac |-> "m1", deviceId |-> "m1"]

ClientAt(k) ==
    IF k % 2 = 1 THEN [mac |-> "m2", id |-> "d1"] ELSE [mac |-> "m1", id |-> "m1"]

\* The fetched records as the entities they are.
EntitiesOf(op, recs) ==
    [i \in DOMAIN recs |->
        IF op \in {"listDevices", "getDevice"} THEN DeviceAt(recs[i]) ELSE ClientAt(recs[i])]

\* toToolResult (server.ts, lines 39-45) of an optional value: JSON.stringify
\* gives undefined for undefined, hence the text '' and no content; any
\* other value gives one text item holding its JSON.
toToolResult(o) ==
    IF o = Undefined THEN [content |-> << >>]
    ELSE [content |-> <<[type |-> "text", text |-> [json |-> Val(o)]]>>]

\* The operation answering not-found when the list failed.
operationOutcome_swallowing(op, ident, lo) ==
    IF lo.kind # "ok" THEN [kind |-> "ok", value |-> Undefined]
    ELSE IF op = "getDevice"
    THEN [kind |-> "ok", value |-> findDevice(EntitiesOf(op, lo.value), ident, 1)]
    ELSE IF op = "getClient"
    THEN [kind |-> "ok", value |-> findClient(EntitiesOf(op, lo.value), ident, 1)]
    ELSE [kind |-> "ok", value |-> Some(EntitiesOf(op, lo.value))]

\* What the operation returns or throws once its list has ended with lo
\* (lines 73-95): a rejected list propagates (no try/catch); otherwise
\* the list itself, or find over it.
operationOutcome(op, ident, lo) ==
    IF lo.kind # "ok" THEN lo
    ELSE IF op = "getDevice"
    THEN [kind |-> "ok", value |-> findDevice(EntitiesOf(op, lo.value), ident, 1)]
    ELSE IF op = "getClient"
    THEN [kind |-> "ok", value |-> findClient(EntitiesOf(op, lo.value), ident, 1)]
    ELSE [kind |-> "ok", value |-> Some(EntitiesOf(op, lo.value))]

\* The tool handler (server.ts, lines 229-276): toToolResult of what the
\* operation returned; what it threw is thrown on.
toolHandler(out) ==
    IF out.kind = "ok" THEN [kind |-> "ok", value |-> toToolResult(out.value)]
    ELSE out

\* The records of wrapToolHandler (server.ts, lines 102, 106, 109-113); the
\* tool is named by its operation, the error by the value thrown.
ToolInvoked(name) == [level |-> "info", message |-> "Tool invoked", tool |-> name]

ToolCompleted(name) == [level |-> "info", message |-> "Tool completed", tool |-> name]

ToolFailed(name, error) ==
    [level |-> "error", message |-> "Tool failed", tool |-> name, error |-> error]

\* wrapToolHandler answering a failed handler with a result that holds the
\* error.
wrapToolHandler_swallowing(name, out) ==
    IF out.kind = "ok"
    THEN [result |-> out, record |-> ToolCompleted(name)]
    ELSE [result |-> [kind |-> "ok", value |-> toToolResult(Some(out.value))],
          record |-> ToolFailed(name, out.value)]

\* wrapToolHandler (server.ts, lines 104-115) once its handler has ended
\* with out: the record it logs, and what it returns or rethrows.
wrapToolHandler(name, out) ==
    IF out.kind = "ok"
    THEN [result |-> out, record |-> ToolCompleted(name)]
    ELSE [result |-> out, record |-> ToolFailed(name, out.value)]

\* A tool calls a site-scoped operation (lines 73-95): resolveSiteId throws
\* before anything else happens, or the list is started on the site's path.
CallOperation(c) ==
    /\ c = Host
    /\ resolver = "none"
    /\ pc[c] = "idle"
    /\ fetching = "idle"
    /\ \E op \in SiteOperations, ident \in GetIdentifiers, arg \in Opt(GivenSites) :
         /\ resolver' = op
         /\ identifier' = IF op \in {"getDevice", "getClient"} THEN ident ELSE ""
         /\ given' = arg
         /\ entities' = << >>
         /\ IF resolveSiteId(arg) = Undefined
            THEN /\ found' = [kind |-> "error", value |-> NoSiteError]
                 /\ LET wrapped == wrapToolHandler(op, toolHandler([kind |-> "error",
                                                                      value |-> NoSiteError]))
                    IN  /\ toolOutcome' = wrapped.result
                        /\ toolLog' = <<ToolInvoked(op), wrapped.record>>
                 /\ UNCHANGED <<tokenVars, now, callVars, listVars>>
            ELSE /\ fetchPaginatedOf(c, SitePath(op, Val(resolveSiteId(arg))), EmptyParams)
                 /\ toolLog' = <<ToolInvoked(op)>>
                 /\ UNCHANGED <<found, toolOutcome>>
    /\ UNCHANGED hostVars

\* fetchPaginated has ended: the operation returns or throws, and so does
\* the tool handler awaiting it.
OperationDone(c) ==
    /\ c = Host
    /\ resolver # "none"
    /\ found = NoOutcome
    /\ fetching \in {"returned", "thrown"}
    /\ found' = operationOutcome(resolver, identifier, listOutcome)
    /\ LET wrapped == wrapToolHandler(resolver,
                                      toolHandler(operationOutcome(resolver, identifier,
                                                                   listOutcome)))
       IN  /\ toolOutcome' = wrapped.result
           /\ toolLog' = Append(toolLog, wrapped.record)
    /\ entities' = IF listOutcome.kind = "ok" THEN EntitiesOf(resolver, listOutcome.value)
                   ELSE << >>
    /\ UNCHANGED <<tokenVars, now, callVars, listVars, hostVars, resolver, identifier, given>>

\* The tool result has been handed over; the next tool call can be made.
OperationReturn(c) ==
    /\ c = Host
    /\ found # NoOutcome
    /\ resolver' = "none"
    /\ identifier' = ""
    /\ entities' = << >>
    /\ found' = NoOutcome
    /\ given' = Undefined
    /\ toolOutcome' = NoOutcome
    /\ toolLog' = << >>
    /\ IF fetching = "idle"
       THEN UNCHANGED <<tokenVars, now, callVars, listVars>>
       ELSE /\ Step(c, Token, "idle", NoConfig, TRUE, "entry", << >>, << >>, << >>, NoOutcome)
            /\ lastReply' = [lastReply EXCEPT ![c] = Undefined]
            /\ fetching' = "idle"
            /\ records' = << >>
            /\ page' = 1
            /\ totalRows' = Undefined
            /\ calls' = << >>
            /\ listOutcome' = NoOutcome
            /\ path' = ""
            /\ UNCHANGED <<server, params>>
    /\ UNCHANGED hostVars

\* The client as constructed, with or without a default site.
InitOperations ==
    /\ accessToken = Undefined
    /\ refreshToken = Undefined
    /\ tokenExpiresAt = Undefined
    /\ now = MsPerSecond
    /\ pc = [c \in Callers |-> "idle"]
    /\ config = [c \in Callers |-> NoConfig]
    /\ retry = [c \in Callers |-> TRUE]
    /\ site = [c \in Callers |-> "entry"]
    /\ trace = [c \in Callers |-> << >>]
    /\ sent = [c \in Callers |-> << >>]
    /\ received = [c \in Callers |-> << >>]
    /\ outcome = [c \in Callers |-> NoOutcome]
    /\ lastReply = [c \in Callers |-> Undefined]
    /\ log = [c \in Callers |-> << >>]
    /\ NoFetch
    /\ server \in SiteServers
    /\ params = EmptyParams
    /\ NoLookup
    /\ siteId \in Opt(ConfiguredSites)
    /\ NoStartup

NextOperations ==
    \E c \in Callers :
        \/ CallOperation(c)
        \/ PageGrant(c)
        \/ PageResponse(c)
        \/ PageDone(c)
        \/ OperationDone(c)
        \/ OperationReturn(c)

SpecOperations == InitOperations /\ [][NextOperations]_vars

\* The positions of the fetched entities that match the identifier.
MatchesIn(es) ==
    { i \in DOMAIN es :
        \/ es[i].mac = identifier
        \/ (IF resolver = "getDevice" THEN es[i].deviceId ELSE es[i].id) = identifier }

\* C21: getDevice / getClient return the absent value (which their tools
\* turn into a result with empty content) only after the whole collection
\* was fetched without error and holds no match, and an error raised while
\* the collection is fetched reaches the caller, and the tool's caller, as
\* that error, never as not-found.
C21_NotFoundIsNotFailure ==
    /\ (resolver \in {"getDevice", "getClient"} /\ found.kind = "ok") =>
          /\ fetching = "returned"
          /\ listOutcome.kind = "ok"
          /\ Len(listOutcome.value) = server.total
          /\ Len(entities) = server.total
          /\ found.value = Undefined <=> MatchesIn(entities) = {}
          /\ toolOutcome.kind = "ok"
          /\ toolOutcome.value.content = << >> <=> found.value = Undefined
    /\ (resolver # "none" /\ found # NoOutcome /\ fetching = "thrown") =>
          /\ found = [kind |-> "error", value |-> listOutcome.value]
          /\ toolOutcome = found
    /\ (resolver # "none" /\ fetching = "thrown") => listOutcome.kind = "error"

\* getDevice has answered not-found, and its tool empty content, after the
\* two devices of the site were fetched.
C21_Witness ==
    /\ resolver = "getDevice"
    /\ identifier = "zz"
    /\ server.total = 2
    /\ Len(entities) = 2
    /\ found = [kind |-> "ok", value |-> Undefined]
    /\ toolOutcome = [kind |-> "ok", value |-> [content |-> << >>]]

\* C27: listDevices, listClients, getDevice and getClient use the site id
\* given in the call even when a default is configured, else the configured
\* default; when the given one is absent or empty and none is configured the
\* operation throws before any network activity: no token call, no data
\* request, the token fields unchanged.
C27_SiteResolution ==
    [][(resolver = "none" /\ resolver' # "none") =>
          LET useGiven == given' # Undefined /\ Val(given') # ""
              useDefault == siteId # Undefined /\ Val(siteId) # ""
              chosen == IF useGiven THEN Val(given') ELSE Val(siteId)
          IN  IF useGiven \/ useDefault
              THEN /\ path' = SitePath(resolver', chosen)
                   /\ config'[Host].url = path'
                   /\ fetching' = "running"
                   /\ found' = NoOutcome
              ELSE /\ found'.kind = "error"
                   /\ toolOutcome'.kind = "error"
                   /\ fetching' = "idle"
                   /\ UNCHANGED <<tokenVars, pc, trace, sent, calls, lastReply>>]_vars

\* listClients was called with site s2 on a client configured with s1, and
\* fetches the clients of s2.
C27_Witness ==
    /\ resolver = "listClients"
    /\ siteId = Some("s1")
    /\ given = Some("s2")
    /\ path = "/openapi/v1/omadac/sites/s2/clients"
    /\ Len(sent[Host]) = 1
    /\ sent[Host][1].config.url = "/openapi/v1/omadac/sites/s2/clients"

\* ------------------------------------------------------- concurrent sends
\* Both hosts may have a send in flight on the one client. The sends
\* interleave at their awaits only: each action is one turn of the event
\* loop, from the arrival of an answer to the next network call.

\* The request both hosts make.
ConcurrentConfig ==
    [method |-> "GET", url |-> "/openapi/v1/omadac/sites", params |-> "page=1", data |-> "none"]

\* Answers of the token endpoint: a transport failure, and three grants that
\* differ in every field.
ConcurrentTokenResponses ==
    { [kind |-> "network", status |-> Undefined, errorCode |-> Undefined, result |-> Undefined] }
    \cup
    { [kind |-> "http", status |-> Some(200), errorCode |-> Some(0), result |-> Some(t)] :
        t \in { [accessToken |-> Some("A1"), refreshToken |-> Some("R1"), expiresIn |-> Some(31)],
                [accessToken |-> Some("A2"), refreshToken |-> Undefined, expiresIn |-> Some(31)],
                [accessToken |-> Some("A2"), refreshToken |-> Some("R1"), expiresIn |-> Some(30)] } }

\* Answers of the data endpoint: success, or a rejected session.
ConcurrentDataResponses ==
    { Envelope("http", Some(200), Some(0)), Envelope("http", Some(401), Undefined) }

\* Either host calls callApi / get while the other's send may be in flight.
SendConcurrent(c) ==
    /\ pc[c] = "idle"
    /\ request(c, Token, ConcurrentConfig, TRUE, << >>, << >>)
    /\ UNCHANGED <<lastReply, listVars, lookupVars, hostVars>>

RefreshConcurrent(c) ==
    /\ \E r \in ConcurrentTokenResponses : OnRefreshResponse(c, r)
    /\ UNCHANGED <<listVars, lookupVars, hostVars>>

GrantConcurrent(c) ==
    /\ \E r \in ConcurrentTokenResponses : OnGrantResponse(c, r)
    /\ UNCHANGED <<listVars, lookupVars, hostVars>>

DataConcurrent(c) ==
    /\ \E r \in ConcurrentDataResponses : OnDataResponse(c, r)
    /\ UNCHANGED <<listVars, lookupVars, hostVars>>

NextConcurrent ==
    \/ \E c \in Callers : SendConcurrent(c)
    \/ \E c \in Callers : RefreshConcurrent(c)
    \/ \E c \in Callers : GrantConcurrent(c)
    \/ \E c \in Callers : DataConcurrent(c)
    \/ \E c \in Callers : Return(c)
    \/ Tick

SpecConcurrent == Init /\ [][NextConcurrent]_vars

\* The held token cannot be used at time t: it is missing or expired.
Unusable(tok, t) ==
    \/ tok.accessToken = Undefined
    \/ tok.accessToken = Some("")
    \/ tok.tokenExpiresAt = Undefined
    \/ Val(tok.tokenExpiresAt) <= t

AwaitsToken(c) == pc[c] \in {"await_refresh", "await_grant"}

TokenCalls(c) ==
    Count(trace[c], "refresh_token") + Count(trace[c], "client_credentials")

\* C22: there is no single-flight guard: a send that starts while the token
\* is missing or expired makes its own call to the token endpoint even when
\* another send's token call for the same missing or expired token is still
\* outstanding, so two token calls for one expiry event are reachable.
C22_NoSingleFlight ==
    [][\A c \in Callers :
         (pc[c] = "idle" /\ pc'[c] # "idle" /\ Unusable(Token, now)) =>
            /\ AwaitsToken(c)'
            /\ TokenCalls(c)' = 1
            /\ Token' = Token]_vars

\* Both sends found no token and each has a client_credentials grant
\* outstanding.
C22_Witness ==
    /\ Token = [accessToken |-> Undefined, refreshToken |-> Undefined,
                tokenExpiresAt |-> Undefined]
    /\ \A c \in Callers :
          /\ pc[c] = "await_grant"
          /\ trace[c] = <<"ensure", "client_credentials">>

\* The token a successful token response r, processed at time t, stands for.
TokenOf(r, t) ==
    LET res == IF r.result = Undefined
               THEN [accessToken |-> Undefined, refreshToken |-> Undefined,
                     expiresIn |-> Undefined]
               ELSE r.result[1]
        secs == IF res.expiresIn = Undefined THEN 0 ELSE res.expiresIn[1]
        left == IF secs > 30 THEN secs - 30 ELSE 0
    IN  [accessToken |-> res.accessToken, refreshToken |-> res.refreshToken,
         tokenExpiresAt |-> <<t + left * 1000>>]

Succeeded(r) ==
    /\ r.kind = "http"
    /\ r.status # Undefined /\ r.status[1] >= 200 /\ r.status[1] < 300
    /\ r.errorCode = <<0>>

EmptyToken ==
    [accessToken |-> Undefined, refreshToken |-> Undefined, tokenExpiresAt |-> Undefined]

\* The caller whose token response this step processes.
Processes(c) ==
    /\ AwaitsToken(c)
    /\ <<pc[c], trace[c]>> # <<pc'[c], trace'[c]>>

C23_Step ==
    /\ \A c \in Callers :
          (Processes(c) /\ Succeeded(lastReply'[c][1].response)) =>
              Token' = TokenOf(lastReply'[c][1].response, now)
    /\ \/ Token' = Token
       \/ Token' = EmptyToken
       \/ \E c \in Callers :
             /\ Processes(c)
             /\ Succeeded(lastReply'[c][1].response)

C23_Inv ==
    \/ Token = EmptyToken
    \/ \E r \in ConcurrentTokenResponses, t \in 1 .. (MaxTicks + 1) :
          Succeeded(r) /\ Token = TokenOf(r, t * 1000)

\* C23: under every interleaving of concurrent sends the three token fields
\* are all empty or all taken from one successful token response, never a mix
\* of two, and each successful token response that is processed replaces them
\* all, so the token held is the one of the response processed last.
C23_NoMixedToken == []C23_Inv /\ [][C23_Step]_vars

\* Both sends authenticated on their own: the first dispatched with A1, the
\* second, whose grant was processed last, with A2, and the token held is
\* the second one, with no refresh token left from the first.
C23_Witness ==
    /\ \A c \in Callers : pc[c] = "await_data" /\ TokenCalls(c) = 1
    /\ sent["c1"][1].authorization = "A1"
    /\ sent["c2"][1].authorization = "A2"
    /\ lastReply["c1"][1].response.result[1].refreshToken = <<"R1">>
    /\ accessToken = <<"A2">>
    /\ refreshToken = Undefined

\* ----------------------------------------------------------------- startup
\* index.ts main: loadConfigFromEnv, new OmadaClient(config), startServer.

\* z.string().url() on the strings used below.
IsUrl(s) == s \in {"https://omada.local", "https://omada.local/", "http://proxy:8080"}

\* baseUrl.replace(/\/$/, '') on the strings used below.
StripTrailingSlash(s) == IF s = "https://omada.local/" THEN "https://omada.local" ELSE s

\* OMADA_TIMEOUT is held as its sequence of characters.
Digits == {"0", "1", "2", "3", "4", "5", "6", "7", "8", "9"}

DigitValue(ch) ==
    CASE ch = "0" -> 0 [] ch = "1" -> 1 [] ch = "2" -> 2 [] ch = "3" -> 3 [] ch = "4" -> 4
      [] ch = "5" -> 5 [] ch = "6" -> 6 [] ch = "7" -> 7 [] ch = "8" -> 8 [] ch = "9" -> 9

\* Number.NaN.
NaN == << >>

RECURSIVE SkipWhitespace(_, _)
SkipWhitespace(s, i) ==
    IF i <= Len(s) /\ s[i] = " " THEN SkipWhitespace(s, i + 1) ELSE i

RECURSIVE ParseDigits(_, _, _)
ParseDigits(s, i, acc) ==
    IF i > Len(s) \/ s[i] \notin Digits THEN acc
    ELSE ParseDigits(s, i + 1, acc * 10 + DigitValue(s[i]))

\* Number.parseInt(s, 10): leading whitespace is skipped, a sign is taken,
\* then the longest run of digits; what follows the run is ignored, and
\* with no digit the result is NaN.
parseInt(s) ==
    LET i == SkipWhitespace(s, 1)
        signed == i <= Len(s) /\ s[i] \in {"-", "+"}
        j == IF signed THEN i + 1 ELSE i
        magnitude == ParseDigits(s, j, 0)
    IN  IF j > Len(s) \/ s[j] \notin Digits THEN NaN
        ELSE IF signed /\ s[i] = "-" THEN Some(0 - magnitude)
        ELSE Some(magnitude)

\* numericStringSchema: [ok, value]; an unset or empty value is undefined,
\* anything else is parsed and must be a positive number.
numericStringSchema(value) ==
    IF value = Undefined \/ Val(value) = << >>
    THEN [ok |-> TRUE, value |-> Undefined]
    ELSE LET n == parseInt(Val(value))
         IN  IF n = NaN THEN [ok |-> FALSE, value |-> Undefined]
             ELSE [ok |-> Val(n) > 0, value |-> n]

\* booleanStringSchema: 'true', 'false' or unset; the value is
\* value !== 'false'.
booleanStringSchema(value) ==
    [ok |-> value = Undefined \/ Val(value) \in {"true", "false"},
     value |-> value # Some("false")]

\* z.string().min(1) and z.string().min(1).optional().
RequiredString(value) == value # Undefined /\ Val(value) # ""
OptionalString(value) == value = Undefined \/ Val(value) # ""

\* loadConfigFromEnv (lines 36-63): the EnvironmentConfig, or Undefined when
\* it throws 'Invalid environment configuration'.
loadConfigFromEnv(e) ==
    LET omadacId == IF e["OMADA_OMADAC_ID"] # Undefined THEN e["OMADA_OMADAC_ID"]
                    ELSE e["OMADA_CONTROLLER_ID"]
        strictSsl == booleanStringSchema(e["OMADA_STRICT_SSL"])
        requestTimeout == numericStringSchema(e["OMADA_TIMEOUT"])
        success ==
            /\ e["OMADA_BASE_URL"] # Undefined /\ IsUrl(Val(e["OMADA_BASE_URL"]))
            /\ RequiredString(e["OMADA_CLIENT_ID"])
            /\ RequiredString(e["OMADA_CLIENT_SECRET"])
            /\ RequiredString(omadacId)
            /\ OptionalString(e["OMADA_SITE_ID"])
            /\ strictSsl.ok
            /\ requestTimeout.ok
            /\ e["OMADA_PROXY_URL"] = Undefined \/ IsUrl(Val(e["OMADA_PROXY_URL"]))
    IN  IF ~success THEN Undefined
        ELSE Some([baseUrl |-> StripTrailingSlash(Val(e["OMADA_BASE_URL"])),
                   clientId |-> Val(e["OMADA_CLIENT_ID"]),
                   clientSecret |-> Val(e["OMADA_CLIENT_SECRET"]),
                   omadacId |-> Val(omadacId),
                   siteId |-> e["OMADA_SITE_ID"],
                   strictSsl |-> strictSsl.value,
                   requestTimeout |-> requestTimeout.value,
                   proxyUrl |-> e["OMADA_PROXY_URL"]])

\* A complete environment, and one that names the controller by the older
\* OMADA_CONTROLLER_ID.
GoodEnv ==
    [k \in Settings |->
        CASE k = "OMADA_BASE_URL" -> Some("https://omada.local/")
          [] k = "OMADA_CLIENT_ID" -> Some("id")
          [] k = "OMADA_CLIENT_SECRET" -> Some("secret")
          [] k = "OMADA_OMADAC_ID" -> Some("cid")
          [] k = "OMADA_SITE_ID" -> Some("s1")
          [] OTHER -> Undefined]

FallbackEnv ==
    [GoodEnv EXCEPT !["OMADA_OMADAC_ID"] = Undefined, !["OMADA_CONTROLLER_ID"] = Some("cid2")]

\* What a setting may be changed to.
SettingValues(k) ==
    CASE k = "OMADA_BASE_URL" -> {Undefined, Some(""), Some("omada.local"), Some("https://omada.local")}
      [] k = "OMADA_OMADAC_ID" -> {Undefined, Some(""), Some("cid")}
      [] k = "OMADA_CONTROLLER_ID" -> {Undefined, Some(""), Some("cid2")}
      [] k = "OMADA_STRICT_SSL" -> {Undefined, Some(""), Some("true"), Some("false"), Some("yes")}
      [] k = "OMADA_TIMEOUT" ->
            {Undefined, Some(<< >>), Some(<<"5">>), Some(<<"1", "0">>), Some(<<"0">>),
             Some(<<"-", "5">>), Some(<<"a", "b", "c">>), Some(<<"5", "x">>), Some(<<" ", "5">>)}
      [] k = "OMADA_PROXY_URL" -> {Undefined, Some(""), Some("proxy"), Some("http://proxy:8080")}
      [] OTHER -> {Undefined, Some("")}

\* The environments main is started with: a complete one with one setting
\* changed.
Envs ==
    UNION { {[e EXCEPT ![k] = v] : v \in SettingValues(k)} :
               <<e, k>> \in {GoodEnv, FallbackEnv} \X Settings }

InitStartup ==
    /\ accessToken = Undefined
    /\ refreshToken = Undefined
    /\ tokenExpiresAt = Undefined
    /\ now = MsPerSecond
    /\ pc = [c \in Callers |-> "idle"]
    /\ config = [c \in Callers |-> NoConfig]
    /\ retry = [c \in Callers |-> TRUE]
    /\ site = [c \in Callers |-> "entry"]
    /\ trace = [c \in Callers |-> << >>]
    /\ sent = [c \in Callers |-> << >>]
    /\ received = [c \in Callers |-> << >>]
    /\ outcome = [c \in Callers |-> NoOutcome]
    /\ lastReply = [c \in Callers |-> Undefined]
    /\ log = [c \in Callers |-> << >>]
    /\ NoFetch
    /\ server = AnyServer
    /\ params = EmptyParams
    /\ NoLookup
    /\ siteId = Undefined
    /\ env \in Envs
    /\ phase = "main"
    /\ exitCode = Undefined
    /\ options = Undefined
    /\ observed = [c \in Callers |-> << >>]
    /\ httpServer = NoHttp

\* main with a token call made while the client is constructed.
main_eager ==
    /\ phase = "main"
    /\ LET loaded == loadConfigFromEnv(env) IN
         IF loaded = Undefined
         THEN /\ phase' = "failed"
              /\ exitCode' = Some(1)
              /\ UNCHANGED <<options, siteId, tokenVars, now, callVars>>
         ELSE /\ options' = loaded
              /\ siteId' = Val(loaded).siteId
              /\ phase' = "connecting"
              /\ request(Host, Token, ConcurrentConfig, TRUE, << >>, << >>)
              /\ UNCHANGED <<exitCode, lastReply>>
    /\ UNCHANGED <<env, listVars, lookupVars, observed, httpServer>>

\* main (index.ts lines 6-17) up to its await: the configuration is loaded;
\* when that throws, the catch sets the exit code; otherwise the client is
\* constructed (the constructor stores the options and makes no call) and
\* startServer runs up to server.connect.
main ==
    /\ phase = "main"
    /\ LET loaded == loadConfigFromEnv(env) IN
         IF loaded = Undefined
         THEN /\ phase' = "failed"
              /\ exitCode' = Some(1)
              /\ UNCHANGED <<options, siteId>>
         ELSE /\ options' = loaded
              /\ siteId' = Val(loaded).siteId
              /\ phase' = "connecting"
              /\ UNCHANGED exitCode
    /\ UNCHANGED <<env, tokenVars, now, callVars, listVars, lookupVars, observed, httpServer>>

\* server.connect resolves: the server is connected.
Connected ==
    /\ phase = "connecting"
    /\ phase' = "connected"
    /\ UNCHANGED <<env, exitCode, options, siteId, tokenVars, now, callVars, listVars,
                   lookupVars, observed, httpServer>>

\* server.connect rejects: main's catch sets the exit code.
ConnectFailed ==
    /\ phase = "connecting"
    /\ phase' = "failed"
    /\ exitCode' = Some(1)
    /\ UNCHANGED <<env, options, siteId, tokenVars, now, callVars, listVars, lookupVars,
                   observed, httpServer>>

\* A tool of the connected server calls the client.
ToolSend ==
    /\ phase = "connected"
    /\ pc[Host] = "idle"
    /\ request(Host, Token, ConcurrentConfig, TRUE, << >>, << >>)
    /\ UNCHANGED <<lastReply, listVars, lookupVars, hostVars>>

NextStartup ==
    \/ main
    \/ Connected
    \/ ConnectFailed
    \/ ToolSend
    \/ RefreshConcurrent(Host)
    \/ GrantConcurrent(Host)
    \/ DataConcurrent(Host)
    \/ Return(Host)

SpecStartup == InitStartup /\ [][NextStartup]_vars

Quiet(c) == pc[c] = "idle" /\ trace[c] = << >> /\ sent[c] = << >> /\ lastReply[c] = Undefined

\* Until the server is connected nothing was sent and no token is held.
C24_Inv ==
    phase \in {"main", "connecting", "failed"} =>
        /\ Token = EmptyToken
        /\ \A c \in Callers : Quiet(c)

C24_Step ==
    \* constructing the client and connecting the server call nothing
    /\ phase' # phase => (UNCHANGED <<tokenVars, pc, trace, sent, lastReply>>)
    \* the first send authenticates
    /\ (pc[Host] = "idle" /\ pc'[Host] # "idle" /\ Token = EmptyToken) =>
          /\ pc'[Host] = "await_grant"
          /\ trace'[Host] = <<"ensure", "client_credentials">>
    \* a successful grant or refresh replaces all three fields
    /\ (Processes(Host) /\ Succeeded(lastReply'[Host][1].response)) =>
          /\ Token' = TokenOf(lastReply'[Host][1].response, now)
          /\ refreshToken' = lastReply'[Host][1].response.result[1].refreshToken

\* C24: constructing the client and starting the server make no call to the
\* token endpoint, the first authentication happens inside the first send,
\* and every successful grant or refresh replaces all three token fields
\* from the new response: a refresh response without a refreshToken leaves
\* no refresh token held.
C24_TokenLifecycle == []C24_Inv /\ [][C24_Step]_vars

\* The held refresh token R1 was used for a refresh whose response carried
\* no refreshToken: none is held afterwards.
C24_Witness ==
    /\ phase = "connected"
    /\ trace[Host] = <<"ensure", "refresh_token", "request">>
    /\ lastReply[Host][1].grantType = "refresh_token"
    /\ lastReply[Host][1].response.result[1].refreshToken = Undefined
    /\ accessToken = Some("A2")
    /\ refreshToken = Undefined

\* A decimal number above zero, written with digits only; unset or empty
\* counts as not given.
WellFormedTimeout(v) ==
    \/ v = Undefined
    \/ v[1] = << >>
    \/ /\ \A i \in DOMAIN v[1] : v[1][i] \in Digits
       /\ \E i \in DOMAIN v[1] : v[1][i] # "0"

MissingOrEmpty(v) == v = Undefined \/ v[1] = ""

\* A required setting is missing or malformed, or an optional one is
\* malformed.
Misconfigured(e) ==
    \/ e["OMADA_BASE_URL"] = Undefined
    \/ ~IsUrl(e["OMADA_BASE_URL"][1])
    \/ MissingOrEmpty(e["OMADA_CLIENT_ID"])
    \/ MissingOrEmpty(e["OMADA_CLIENT_SECRET"])
    \/ e["OMADA_OMADAC_ID"] = <<"">>
    \/ (e["OMADA_OMADAC_ID"] = Undefined /\ MissingOrEmpty(e["OMADA_CONTROLLER_ID"]))
    \/ e["OMADA_SITE_ID"] = <<"">>
    \/ e["OMADA_STRICT_SSL"] \notin {Undefined, <<"true">>, <<"false">>}
    \/ ~WellFormedTimeout(e["OMADA_TIMEOUT"])
    \/ (e["OMADA_PROXY_URL"] # Undefined /\ ~IsUrl(e["OMADA_PROXY_URL"][1]))

\* Startup ended in failure before anything was constructed or called.
FailedFast ==
    /\ phase = "failed"
    /\ exitCode = <<1>>
    /\ options = Undefined
    /\ Token = EmptyToken
    /\ \A c \in Callers : Quiet(c)

\* C28: when a required setting is missing or malformed, or an optional one
\* is malformed, loadConfigFromEnv throws and startup ends with a failure
\* exit code without constructing the client, connecting the server or
\* making any network call.
C28_FailFast == (phase # "main" /\ Misconfigured(env)) => FailedFast

\* C28, for the settings the schema rejects: whenever loadConfigFromEnv
\* throws, startup fails fast.
C28_ThrowFailsFast == (phase # "main" /\ loadConfigFromEnv(env) = Undefined) => FailedFast

\* A successful grant: a 2xx envelope with errorCode 0 whose result holds an
\* access token and an expiresIn above the buffer.
GoodGrant(r) ==
    /\ Succeeded(r)
    /\ r.result # Undefined
    /\ r.result[1].accessToken \notin {Undefined, <<"">>}
    /\ r.result[1].expiresIn # Undefined
    /\ r.result[1].expiresIn[1] > 30

Answered2xx(r) == r.kind = "http" /\ r.status[1] >= 200 /\ r.status[1] < 300

\* Whatever happened before, a send can start and its result can be taken.
C25_Inv ==
    /\ pc[Host] \in {"idle", "await_refresh", "await_grant", "await_data", "done"}
    /\ pc[Host] = "idle" => ENABLED Send(Host)
    /\ pc[Host] = "done" => ENABLED Return(Host)

C25_Step ==
    \* a send never fails before its first call
    /\ (pc[Host] = "idle" /\ pc'[Host] # "idle") =>
          pc'[Host] \in {"await_refresh", "await_grant", "await_data"}
    \* a refresh, whatever its answer, never ends the send: it is followed
    \* by the grant or by the data request
    /\ (pc[Host] = "await_refresh" /\ Processes(Host)) =>
          pc'[Host] \in {"await_grant", "await_data"}
    \* a successful grant is followed by the data request, sent with the
    \* granted token
    /\ (pc[Host] = "await_grant" /\ Processes(Host) /\ GoodGrant(lastReply'[Host][1].response)) =>
          /\ pc'[Host] = "await_data"
          /\ sent'[Host][Len(sent'[Host])].authorization =
                lastReply'[Host][1].response.result[1].accessToken[1]
    \* a successful answer to the data request ends the send successfully
    /\ (pc[Host] = "await_data" /\ Len(received'[Host]) = Len(received[Host]) + 1
          /\ Answered2xx(received'[Host][Len(received'[Host])])) =>
          /\ pc'[Host] = "done"
          /\ outcome'[Host].kind = "ok"

\* C25: the session has no terminal failure state: in every reachable
\* state, whatever grants, refreshes, invalidations and data requests failed
\* before, a send can be started, a refresh never ends it, a successful
\* client_credentials grant with expiresIn above the buffer takes it to the
\* data request, and a successful data answer makes it succeed.
C25_NoTerminalFailure == []C25_Inv /\ [][C25_Step]_vars

\* A send that survived a failed refresh and a rejected session, and
\* succeeded once the grant and the data endpoint answered successfully.
C25_Witness ==
    /\ pc[Host] = "done"
    /\ outcome[Host].kind = "ok"
    /\ trace[Host] = <<"ensure", "refresh_token", "clearToken", "client_credentials",
                       "request", "clearToken", "ensure", "client_credentials", "ensure",
                       "request">>
    /\ GoodGrant(lastReply[Host][1].response)

\* ------------------------------------------------------------- passthrough
\* callApi beside a typed operation: the host fetches one page of a list,
\* then a second client in the state the first one started in makes the
\* same request through callApi and is given the same answers.

\* The token states a send can start in: none, a live token, an expired one
\* with a refresh token, an expired one without.
StartTokens ==
    { [accessToken |-> Undefined, refreshToken |-> Undefined, tokenExpiresAt |-> Undefined],
      [accessToken |-> Some("A1"), refreshToken |-> Some("R1"),
       tokenExpiresAt |-> Some(2 * MsPerSecond)],
      [accessToken |-> Some("A1"), refreshToken |-> Some("R1"),
       tokenExpiresAt |-> Some(MsPerSecond)],
      [accessToken |-> Some("A1"), refreshToken |-> Undefined,
       tokenExpiresAt |-> Some(MsPerSecond)] }

\* The caller of callApi.
Passthrough == "c2"

\* One entry of observed: the call, its answer, the token fields after it.
Observation(call, answer, tok) == [call |-> call, answer |-> answer, token |-> tok]

NoAnswer == Envelope("none", Undefined, Undefined)

Observe(c, call, answer) ==
    observed' = [observed EXCEPT ![c] =
                    Append(@, Observation(call, answer,
                                          [accessToken |-> accessToken',
                                           refreshToken |-> refreshToken',
                                           tokenExpiresAt |-> tokenExpiresAt']))]

mainVars == <<siteId, env, phase, exitCode, options, httpServer>>

\* callApi without the one retry.
callApi_noRetry(c, tok, cfg) == request(c, tok, cfg, FALSE, << >>, << >>)

\* Lines 97-99: callApi(config) is request(config).
callApi(c, tok, cfg) == request(c, tok, cfg, TRUE, << >>, << >>)

InitPassthrough ==
    /\ \E tok \in StartTokens :
          /\ accessToken = tok.accessToken
          /\ refreshToken = tok.refreshToken
          /\ tokenExpiresAt = tok.tokenExpiresAt
    /\ now = MsPerSecond
    /\ pc = [c \in Callers |-> "idle"]
    /\ config = [c \in Callers |-> NoConfig]
    /\ retry = [c \in Callers |-> TRUE]
    /\ site = [c \in Callers |-> "entry"]
    /\ trace = [c \in Callers |-> << >>]
    /\ sent = [c \in Callers |-> << >>]
    /\ received = [c \in Callers |-> << >>]
    /\ outcome = [c \in Callers |-> NoOutcome]
    /\ lastReply = [c \in Callers |-> Undefined]
    /\ log = [c \in Callers |-> << >>]
    /\ NoFetch
    /\ server = AnyServer
    /\ params = EmptyParams
    /\ NoLookup
    /\ siteId = Undefined
    /\ NoStartup

\* The host's typed operation requests its first page.
FetchPage ==
    /\ observed[Host] = << >>
    /\ fetchPaginatedOf(Host, ListPath, EmptyParams)
    /\ Observe(Host, "start", NoAnswer)
    /\ UNCHANGED <<lookupVars, mainVars>>

FetchRefresh ==
    /\ fetching = "running"
    /\ \E r \in ConcurrentTokenResponses :
          OnRefreshResponse(Host, r) /\ Observe(Host, "refresh_token", r)
    /\ UNCHANGED <<listVars, lookupVars, mainVars>>

FetchGrant ==
    /\ fetching = "running"
    /\ \E r \in ConcurrentTokenResponses :
          OnGrantResponse(Host, r) /\ Observe(Host, "client_credentials", r)
    /\ UNCHANGED <<listVars, lookupVars, mainVars>>

FetchData ==
    /\ fetching = "running"
    /\ pc[Host] = "await_data"
    /\ \E r \in PageResponsesFor(Host) :
          OnDataResponse(Host, r) /\ Observe(Host, "request", r)
    /\ UNCHANGED <<listVars, lookupVars, mainVars>>

\* The call the send of caller c is waiting on.
Pending(c) ==
    CASE pc[c] = "await_refresh" -> "refresh_token"
      [] pc[c] = "await_grant" -> "client_credentials"
      [] pc[c] = "await_data" -> "request"
      [] OTHER -> "none"

\* The answer the host's send got to its call at the same position.
Replayed(c) == observed[Host][Len(observed[c]) + 1]

\* The host's get has returned or thrown; a client in the state the host
\* started in is asked for the same request through callApi.
CallApi ==
    /\ pc[Host] = "done"
    /\ pc[Passthrough] = "idle"
    /\ observed[Passthrough] = << >>
    /\ callApi(Passthrough, observed[Host][1].token, PageConfig(ListPath, EmptyParams, 1))
    /\ Observe(Passthrough, "start", NoAnswer)
    /\ UNCHANGED <<lastReply, listVars, lookupVars, mainVars>>

\* The endpoints answer callApi's calls as they answered the host's.
PassRefresh ==
    /\ pc[Passthrough] = "await_refresh"
    /\ Len(observed[Passthrough]) < Len(observed[Host])
    /\ Replayed(Passthrough).call = "refresh_token"
    /\ OnRefreshResponse(Passthrough, Replayed(Passthrough).answer)
    /\ Observe(Passthrough, "refresh_token", Replayed(Passthrough).answer)
    /\ UNCHANGED <<listVars, lookupVars, mainVars>>

PassGrant ==
    /\ pc[Passthrough] = "await_grant"
    /\ Len(observed[Passthrough]) < Len(observed[Host])
    /\ Replayed(Passthrough).call = "client_credentials"
    /\ OnGrantResponse(Passthrough, Replayed(Passthrough).answer)
    /\ Observe(Passthrough, "client_credentials", Replayed(Passthrough).answer)
    /\ UNCHANGED <<listVars, lookupVars, mainVars>>

PassData ==
    /\ pc[Passthrough] = "await_data"
    /\ Len(observed[Passthrough]) < Len(observed[Host])
    /\ Replayed(Passthrough).call = "request"
    /\ OnDataResponse(Passthrough, Replayed(Passthrough).answer)
    /\ Observe(Passthrough, "request", Replayed(Passthrough).answer)
    /\ UNCHANGED <<listVars, lookupVars, mainVars>>

NextPassthrough ==
    \/ FetchPage
    \/ FetchRefresh
    \/ FetchGrant
    \/ FetchData
    \/ CallApi
    \/ PassRefresh
    \/ PassGrant
    \/ PassData

SpecPassthrough == InitPassthrough /\ [][NextPassthrough]_vars

Prefix(s, t) == Len(s) <= Len(t) /\ s = SubSeq(t, 1, Len(s))

\* C26: callApi has the token and retry semantics of the typed list
\* operations: given the answers a single page fetch got, callApi(GET path)
\* from the same token state makes the same token-endpoint calls, the same
\* token-state changes and the same data-request dispatches, call by call,
\* and ends as the page's get ended.
C26_SameSemantics ==
    observed[Passthrough] # << >> =>
        /\ Prefix(observed[Passthrough], observed[Host])
        /\ Prefix(trace[Passthrough], trace[Host])
        /\ Prefix(sent[Passthrough], sent[Host])
        /\ Prefix(received[Passthrough], received[Host])
        /\ IF Len(observed[Passthrough]) < Len(observed[Host])
           THEN Pending(Passthrough) = observed[Host][Len(observed[Passthrough]) + 1].call
           ELSE /\ pc[Passthrough] = "done"
                /\ trace[Passthrough] = trace[Host]
                /\ sent[Passthrough] = sent[Host]
                /\ outcome[Passthrough] = outcome[Host]
                /\ lastReply[Passthrough] = lastReply[Host]

\* callApi went through a grant, a rejected session, a second grant and the
\* replay, exactly as the page fetch before it did.
C26_Witness ==
    /\ pc[Passthrough] = "done"
    /\ outcome[Passthrough].kind = "ok"
    /\ trace[Passthrough] = <<"ensure", "client_credentials", "request", "clearToken",
                              "ensure", "client_credentials", "ensure", "request">>
    /\ trace[Host] = trace[Passthrough]
    /\ Len(observed[Passthrough]) = 5
    /\ observed[Passthrough] = observed[Host]

-----------------------------------------------------------------------------
\* Claims about the dispatcher's log records.

\* The values no log record may hold: the access tokens, the refresh token
\* and the client secret.
SecretValues == {"A1", "A2", "R1", "secret"}

IsRequestRecord(rec, d) ==
    /\ rec.level = "info"
    /\ rec.message = "Omada request"
    /\ rec.fields.method = d.config.method
    /\ rec.fields.url = d.config.url
    /\ rec.fields.params = d.config.params

IsOutcomeRecord(rec, d, r) ==
    /\ rec.fields.method = d.config.method
    /\ rec.fields.url = d.config.url
    /\ IF Answered2xx(r)
       THEN /\ rec.level = "info"
            /\ rec.message = "Omada response"
            /\ rec.fields.status = r.status[1]
       ELSE /\ rec.level = "error"
            /\ rec.message = "Omada request failed"
            /\ "message" \in DOMAIN rec.fields

KeepsSecrets(rec) ==
    /\ DOMAIN rec.fields \subseteq {"method", "url", "params", "siteId", "status", "message"}
    /\ rec.fields.method \notin SecretValues
    /\ rec.fields.url \notin SecretValues
    /\ "params" \in DOMAIN rec.fields => rec.fields.params \notin SecretValues
    /\ "message" \in DOMAIN rec.fields => rec.fields.message \notin SecretValues

\* C29: every dispatched data request produces one request record followed
\* by exactly one outcome record (response with the status, or request
\* failed with the message) before the send returns, throws or replays,
\* and no record holds the access token, the refresh token or the client
\* secret.
C29_DispatchIsLogged ==
    \A c \in Callers :
        LET n == Len(sent[c])
            m == Len(received[c])
        IN  /\ Len(log[c]) = n + m
            /\ m = IF pc[c] = "await_data" THEN n - 1 ELSE n
            /\ \A k \in 1 .. n : IsRequestRecord(log[c][2 * k - 1], sent[c][k])
            /\ \A k \in 1 .. m : IsOutcomeRecord(log[c][2 * k], sent[c][k], received[c][k])
            /\ \A i \in DOMAIN log[c] : KeepsSecrets(log[c][i])

\* A send whose first request was rejected with 401 and whose replay was
\* answered 200: request, request failed, request, response.
C29_Witness ==
    /\ pc[Host] = "done"
    /\ accessToken \in {Some("A1"), Some("A2")}
    /\ Len(log[Host]) = 4
    /\ log[Host][2].message = "Omada request failed"
    /\ log[Host][2].fields.message = "Request failed with status code 401"
    /\ log[Host][3].message = "Omada request"
    /\ log[Host][4].message = "Omada response"
    /\ log[Host][4].fields.status = 200

-----------------------------------------------------------------------------
\* ---------------------------------------------------------- HTTP transport
\* The request handler of the HTTP entry point. Paths and URLs are held as
\* their sequences of characters.

HEALTH_PATH == <<"/", "h", "e", "a", "l", "t", "h", "z">>
DEFAULT_PATH == <<"/", "m", "c", "p">>

\* path.replace(/\/+$/, ''): the trailing slashes removed.
RECURSIVE TrimSlashes(_)
TrimSlashes(s) ==
    IF s # << >> /\ s[Len(s)] = "/" THEN TrimSlashes(SubSeq(s, 1, Len(s) - 1)) ELSE s

\* normalizePath (lines 35-47).
normalizePath(p) ==
    IF p = << >> THEN DEFAULT_PATH
    ELSE LET startsWithSlash == IF p[1] = "/" THEN p ELSE <<"/">> \o p
         IN  IF Len(startsWithSlash) > 1 /\ startsWithSlash[Len(startsWithSlash)] = "/"
             THEN LET trimmed == TrimSlashes(startsWithSlash)
                  IN  IF Len(trimmed) = 0 THEN <<"/">> ELSE trimmed
             ELSE startsWithSlash

\* The values of MCP_HTTP_PATH: unset, empty, mcp, /mcp/, /, //, /healthz,
\* /x.
PathSettings ==
    { Undefined, Some(<< >>), Some(<<"m", "c", "p">>), Some(<<"/", "m", "c", "p", "/">>),
      Some(<<"/">>), Some(<<"/", "/">>), Some(HEALTH_PATH), Some(<<"/", "x">>) }

\* Line 151: normalizePath(process.env.MCP_HTTP_PATH ?? DEFAULT_PATH).
EndpointPath(setting) ==
    normalizePath(IF setting = Undefined THEN DEFAULT_PATH ELSE Val(setting))

\* The request targets: none, empty, and origin-form targets with and
\* without a query.
RequestUrls ==
    { Undefined, Some(<< >>), Some(HEALTH_PATH), Some(HEALTH_PATH \o <<"?", "a">>),
      Some(HEALTH_PATH \o <<"/">>), Some(DEFAULT_PATH), Some(DEFAULT_PATH \o <<"?", "a">>),
      Some(DEFAULT_PATH \o <<"/">>), Some(<<"/">>), Some(<<"/", "x">>),
      Some(<<"/", "x", "#", "/", "m", "c", "p">>) }

\* The Host headers: absent, a host name, and one no URL can be built on.
HostHeaders == {Undefined, Some("omada-mcp:3000"), Some("a b")}

Requests == [url : RequestUrls, host : HostHeaders]

\* The pathname of an origin-form target: what precedes the query and the
\* fragment.
RECURSIVE Pathname(_, _)
Pathname(s, i) ==
    IF i > Len(s) \/ s[i] \in {"?", "#"} THEN SubSeq(s, 1, i - 1) ELSE Pathname(s, i + 1)

\* getRequestUrl (lines 83-94): the pathname of new URL(req.url,
\* `http://${host}`), or Undefined when req.url is missing or empty or the
\* URL cannot be built.
getRequestUrl(req) ==
    IF req.url = Undefined \/ Val(req.url) = << >> THEN Undefined
    ELSE IF req.host = Some("a b") THEN Undefined
    ELSE Some(Pathname(Val(req.url), 1))

\* sendJson (lines 96-103): the status and the body; the headers are sent
\* and the response ended.
sendJson(statusCode, body) ==
    [status |-> statusCode, body |-> body, headersSent |-> TRUE, ended |-> TRUE]

\* What handleRequest did with the response when it returned or threw.
TransportOutcomes ==
    [threw : BOOLEAN, headersSent : BOOLEAN]

\* The routing with the endpoint path tested before the health path.
route_endpointFirst(pathname, endpointPath) ==
    IF pathname = endpointPath THEN "transport"
    ELSE IF pathname = HEALTH_PATH THEN "health"
    ELSE "notFound"

\* Lines 168-182: the health path first, then anything but the endpoint
\* path is refused.
route(pathname, endpointPath) ==
    IF pathname = HEALTH_PATH THEN "health"
    ELSE IF pathname # endpointPath THEN "notFound"
    ELSE "transport"

InitHttp ==
    /\ accessToken = Undefined
    /\ refreshToken = Undefined
    /\ tokenExpiresAt = Undefined
    /\ now = MsPerSecond
    /\ pc = [c \in Callers |-> "idle"]
    /\ config = [c \in Callers |-> NoConfig]
    /\ retry = [c \in Callers |-> TRUE]
    /\ site = [c \in Callers |-> "entry"]
    /\ trace = [c \in Callers |-> << >>]
    /\ sent = [c \in Callers |-> << >>]
    /\ received = [c \in Callers |-> << >>]
    /\ outcome = [c \in Callers |-> NoOutcome]
    /\ lastReply = [c \in Callers |-> Undefined]
    /\ log = [c \in Callers |-> << >>]
    /\ NoFetch
    /\ server = AnyServer
    /\ params = EmptyParams
    /\ NoLookup
    /\ siteId = Undefined
    /\ env = NoEnv
    /\ phase = "connected"
    /\ exitCode = Undefined
    /\ options = Undefined
    /\ observed = [c \in Callers |-> << >>]
    /\ \E setting \in PathSettings :
          httpServer = [setting |-> setting, endpointPath |-> EndpointPath(setting),
                        pc |-> "listening",
                        req |-> Undefined, res |-> Undefined, pathname |-> Undefined,
                        transport |-> "none", shutdown |-> NoShutdown]

httpFrame == <<tokenVars, now, callVars, listVars, lookupVars, siteId, env, phase, exitCode,
               options, observed>>

\* A request arrives, the first or after an answered one (lines 153-185):
\* it is answered at once, or handed to the MCP transport.
HttpRequest ==
    /\ httpServer.pc \in {"listening", "answered"}
    /\ \E req \in Requests :
          LET url == getRequestUrl(req) IN
            httpServer' =
               IF url = Undefined
               THEN [httpServer EXCEPT !.pc = "answered", !.req = Some(req),
                                       !.pathname = Undefined, !.transport = "none",
                                       !.res = Some(sendJson(400, "Invalid request URL."))]
               ELSE LET to == route(Val(url), httpServer.endpointPath) IN
                    IF to = "health"
                    THEN [httpServer EXCEPT !.pc = "answered", !.req = Some(req),
                                            !.pathname = url, !.transport = "none",
                                            !.res = Some(sendJson(200, [status |-> "ok"]))]
                    ELSE IF to = "notFound"
                    THEN [httpServer EXCEPT !.pc = "answered", !.req = Some(req),
                                            !.pathname = url, !.transport = "none",
                                            !.res = Some(sendJson(404, [error |-> "Not Found"]))]
                    ELSE [httpServer EXCEPT !.pc = "handling", !.req = Some(req),
                                            !.pathname = url, !.res = Undefined,
                                            !.transport = "reached"]
    /\ UNCHANGED httpFrame

\* transport.handleRequest returns or throws (lines 185-204).
TransportReturns ==
    /\ httpServer.pc = "handling"
    /\ \E o \in TransportOutcomes :
          httpServer' =
             IF o.threw /\ ~o.headersSent
             THEN [httpServer EXCEPT
                      !.pc = "answered", !.transport = "threw",
                      !.res = Some(sendJson(500, [jsonrpc |-> "2.0", code |-> -32000,
                                                  message |-> "Internal server error"]))]
             ELSE [httpServer EXCEPT
                      !.pc = "answered",
                      !.transport = IF o.threw THEN "threw" ELSE "returned",
                      !.res = Some([status |-> 0, body |-> "transport",
                                    headersSent |-> o.headersSent,
                                    ended |-> o.threw])]
    /\ UNCHANGED httpFrame

NextHttp == HttpRequest \/ TransportReturns

SpecHttp == InitHttp /\ [][NextHttp]_vars

\* The path of the request in hand, as the URL parser gave it.
RequestPath == httpServer.pathname[1]

HealthPath == <<"/", "h", "e", "a", "l", "t", "h", "z">>

C30_Inv ==
    (httpServer.pc \in {"handling", "answered"} /\ httpServer.pathname # Undefined) =>
        \* the health path is answered 200 {status: ok}, whatever the endpoint path
        /\ RequestPath = HealthPath =>
              /\ httpServer.pc = "answered"
              /\ httpServer.transport = "none"
              /\ httpServer.res[1].status = 200
              /\ httpServer.res[1].body = [status |-> "ok"]
        \* any other path than the endpoint path is answered 404
        /\ (RequestPath # HealthPath /\ RequestPath # httpServer.endpointPath) =>
              /\ httpServer.pc = "answered"
              /\ httpServer.transport = "none"
              /\ httpServer.res[1].status = 404
        \* only the endpoint path reaches the transport
        /\ httpServer.transport # "none" =>
              /\ RequestPath = httpServer.endpointPath
              /\ RequestPath # HealthPath
        /\ (RequestPath # HealthPath /\ RequestPath = httpServer.endpointPath) =>
              httpServer.transport # "none"

C30_Step ==
    \* a transport exception with no headers sent is answered 500 with a
    \* JSON-RPC error
    (httpServer.pc = "handling" /\ httpServer'.transport = "threw") =>
        \/ /\ httpServer'.res[1].status = 500
           /\ httpServer'.res[1].body.jsonrpc = "2.0"
           /\ httpServer'.res[1].body.code = -32000
        \/ /\ httpServer'.res[1].status = 0
           /\ httpServer'.res[1].body = "transport"
           /\ httpServer'.res[1].headersSent
           /\ httpServer'.res[1].ended

\* C30: a request with a parsable URL on /healthz is answered 200
\* {status: ok} without reaching the MCP transport; one on neither /healthz
\* nor the endpoint path is answered 404 without reaching it; only requests
\* on the endpoint path are handed to the transport, and a transport
\* exception is answered 500 with a JSON-RPC error when no headers were sent.
C30_Routing == []C30_Inv /\ [][C30_Step]_vars

\* The endpoint path is configured as /healthz and a request for
\* /healthz?a was answered by the health check, not by the transport.
C30_Witness ==
    /\ httpServer.pc = "answered"
    /\ httpServer.endpointPath = HealthPath
    /\ httpServer.req = <<[url |-> <<HealthPath \o <<"?", "a">>>>, host |-> Undefined]>>
    /\ httpServer.transport = "none"
    /\ httpServer.res[1].status = 200

-----------------------------------------------------------------------------
\* Claims about the cost and the failure paths of one send.

InFlight(c) == pc[c] \in {"await_refresh", "await_grant", "await_data"}

C32_Inv ==
    \A c \in Callers :
        /\ Len(sent[c]) <= 2
        /\ TokenCalls(c) <= 5
        /\ Len(trace[c]) <= 16

\* Every answer takes the send to its end or to one more call.
C32_Step ==
    \A c \in Callers :
        (InFlight(c) /\ <<pc[c], trace[c], received[c]>> # <<pc'[c], trace'[c], received'[c]>>) =>
            \/ pc'[c] = "done"
            \/ /\ InFlight(c)'
               /\ Len(trace'[c]) > Len(trace[c])
               /\ Len(sent'[c]) + TokenCalls(c)' = Len(sent[c]) + TokenCalls(c) + 1

\* C32: every send returns or throws after a bounded number of network
\* calls when each call completes: at most 2 data requests and at most 5
\* calls to the token endpoint, each answer leading to the end of the send
\* or to exactly one further call.
C32_BoundedSend == []C32_Inv /\ [][C32_Step]_vars

\* A send that made five token calls and two data requests: refresh and
\* grant before the first attempt, a grant after the rejection, refresh and
\* grant before the replay.
C32_Witness ==
    /\ pc[Host] = "done"
    /\ Len(sent[Host]) = 2
    /\ Count(trace[Host], "refresh_token") = 2
    /\ Count(trace[Host], "client_credentials") = 3

-----------------------------------------------------------------------------
\* Failure of the ensureAccessToken call of line 271.

\* authenticate rejects the token response r: the post failed or the
\* envelope's errorCode is not 0.
Rejected(r) == ~Succeeded(r)

\* This step processes the answer to the client_credentials grant that
\* caller c made after clearToken on a session-invalid data response.
ReauthAnswered(c) ==
    /\ pc[c] = "await_grant"
    /\ site[c] = "reauth"
    /\ <<pc[c], trace[c]>> # <<pc'[c], trace'[c]>>

C34_Step ==
    \A c \in Callers :
        (ReauthAnswered(c) /\ Rejected(Val(lastReply'[c]).response)) =>
            /\ pc'[c] = "done"
            /\ outcome'[c] = [kind |-> "auth", value |-> Val(lastReply'[c]).response]
            /\ sent'[c] = sent[c]
            /\ received'[c] = received[c]
            /\ Len(sent[c]) = 1
            /\ trace'[c] = trace[c]
            /\ Token' = EmptyToken

\* C34: when the client_credentials grant made after the invalidation of a
\* session-invalid data response is rejected, the send ends in the step that
\* receives the rejection with the authentication error of that grant (not
\* the error of the data response), no second data request is dispatched and
\* accessToken, refreshToken and tokenExpiresAt are all empty.
C34_FailedReauthPropagates == [][C34_Step]_vars

C34_Witness ==
    /\ pc[Host] = "done"
    /\ site[Host] = "reauth"
    /\ outcome[Host].kind = "auth"
    /\ Len(sent[Host]) = 1
    /\ Len(received[Host]) = 1
    /\ received[Host][1].status = Some(403)
    /\ trace[Host] = <<"ensure", "client_credentials", "request", "clearToken",
                       "ensure", "client_credentials">>
    /\ Token = EmptyToken

-----------------------------------------------------------------------------
\* Invalidation while another send is in flight (lines 166-171, 269-273).

\* This step hands caller c a session-invalid answer to a data request that
\* may still be retried.
RejectedSession(c) ==
    /\ pc[c] = "await_data"
    /\ retry[c]
    /\ Len(received'[c]) = Len(received[c]) + 1
    /\ received'[c][Len(received'[c])].status = Some(401)

\* This step hands caller c a rejected answer to its refresh.
RejectedRefresh(c) ==
    /\ pc[c] = "await_refresh"
    /\ <<pc[c], trace[c]>> # <<pc'[c], trace'[c]>>
    /\ Rejected(Val(lastReply'[c]).response)

C35_Step ==
    \A c \in Callers :
        (RejectedSession(c) \/ RejectedRefresh(c)) =>
            /\ Token' = EmptyToken
            /\ pc'[c] = "await_grant"
            /\ Count(trace'[c], "client_credentials") = Count(trace[c], "client_credentials") + 1

\* C35: a rejected refresh, or a 401 answer to a data request that may be
\* retried, empties the token fields and starts a client_credentials grant
\* whatever token is stored at that moment; with two sends in flight this
\* discards a still valid token that the other send has just installed and
\* that the server has not rejected.
C35_UnconditionalInvalidation == [][C35_Step]_vars

\* No time has passed since construction, c2's token call was answered with
\* token A1 declared for 31 seconds (good for one more second) and c2's data
\* request carrying A1 is still unanswered; c1, whose request carried A2,
\* has been answered 401, the token fields are empty and c1's
\* client_credentials grant is outstanding.
C35_Witness ==
    /\ now = MsPerSecond
    /\ pc["c2"] = "await_data"
    /\ lastReply["c2"] # Undefined
    /\ Val(lastReply["c2"]).response.result =
          Some([accessToken |-> Some("A1"), refreshToken |-> Some("R1"), expiresIn |-> Some(31)])
    /\ Len(sent["c2"]) = 1
    /\ sent["c2"][1].authorization = "A1"
    /\ received["c2"] = << >>
    /\ pc["c1"] = "await_grant"
    /\ site["c1"] = "reauth"
    /\ Len(sent["c1"]) = 1
    /\ sent["c1"][1].authorization = "A2"
    /\ Len(received["c1"]) = 1
    /\ received["c1"][1].status = Some(401)
    /\ Token = EmptyToken

-----------------------------------------------------------------------------
\* callApi beside a whole typed list operation: the passthrough
\* specification with the loop of fetchPaginated running on the host.

NextEnvelope ==
    \/ NextPassthrough
    \/ PageDone(Host)

\* The start of the passthrough specification, facing a list server that
\* pages a collection of 0, 1 or 2 items as the API documents.
InitEnvelope ==
    /\ \E tok \in StartTokens :
          /\ accessToken = tok.accessToken
          /\ refreshToken = tok.refreshToken
          /\ tokenExpiresAt = tok.tokenExpiresAt
    /\ now = MsPerSecond
    /\ pc = [c \in Callers |-> "idle"]
    /\ config = [c \in Callers |-> NoConfig]
    /\ retry = [c \in Callers |-> TRUE]
    /\ site = [c \in Callers |-> "entry"]
    /\ trace = [c \in Callers |-> << >>]
    /\ sent = [c \in Callers |-> << >>]
    /\ received = [c \in Callers |-> << >>]
    /\ outcome = [c \in Callers |-> NoOutcome]
    /\ lastReply = [c \in Callers |-> Undefined]
    /\ log = [c \in Callers |-> << >>]
    /\ NoFetch
    /\ server \in SiteServers
    /\ params = EmptyParams
    /\ NoLookup
    /\ siteId = Undefined
    /\ NoStartup

SpecEnvelope == InitEnvelope /\ [][NextEnvelope]_vars

\* The last call of caller c that was answered, with its answer.
LastObserved(c) == observed[c][Len(observed[c])]

C36_CallApi ==
    (pc[Passthrough] = "done" /\ observed[Passthrough] # << >>) =>
        LET last == LastObserved(Passthrough) IN
        CASE outcome[Passthrough].kind = "ok" ->
                 /\ last.call = "request"
                 /\ last.answer.kind = "http"
                 /\ Val(last.answer.status) \in 200 .. 299
                 /\ outcome[Passthrough].value = Body(last.answer)
          [] outcome[Passthrough].kind = "auth" ->
                 /\ last.call = "client_credentials"
                 /\ Rejected(last.answer)
                 /\ outcome[Passthrough].value = last.answer
          [] outcome[Passthrough].kind = "error" ->
                 /\ last.call = "request"
                 /\ (last.answer.kind # "http" \/ Val(last.answer.status) \notin 200 .. 299)
                 /\ outcome[Passthrough].value = last.answer
          [] OTHER -> FALSE

C36_TypedList ==
    /\ fetching = "returned" =>
          /\ outcome[Host].kind = "ok"
          /\ outcome[Host].value.errorCode = Some(0)
    /\ (fetching = "thrown" /\ outcome[Host].kind = "ok") =>
          /\ outcome[Host].value.errorCode # Some(0)
          /\ listOutcome = [kind |-> "error", value |-> ensureSuccessError(outcome[Host].value)]
    /\ (pc[Host] = "done" /\ outcome[Host].kind = "ok"
          /\ outcome[Host].value.errorCode # Some(0)) => fetching \in {"running", "thrown"}

\* C36: callApi returns the body of every response the transport delivered
\* with a 2xx status as it is, whatever errorCode its envelope holds, and
\* throws only the rejected client_credentials grant or the rejected data
\* request; the typed list operation given a body with a non-zero errorCode
\* throws the error of ensureSuccess and never returns.
C36_NoEnvelopeCheck == C36_CallApi /\ C36_TypedList

\* The list operation threw on the body of its first page, errorCode -1,
\* and callApi given the same answers returned that body.
C36_Witness ==
    /\ fetching = "thrown"
    /\ Len(calls) = 1
    /\ listOutcome = [kind |-> "error", value |-> [error |-> "Omada API request failed"]]
    /\ pc[Passthrough] = "done"
    /\ outcome[Passthrough].kind = "ok"
    /\ outcome[Passthrough].value.errorCode = Some(-1)
    /\ outcome[Passthrough].value = outcome[Host].value
    /\ observed[Passthrough] = observed[Host]

-----------------------------------------------------------------------------
\* Termination of the loop of fetchPaginated (lines 110-127).

\* While the loop runs under a declared positive total, fewer items than
\* that total have been gathered.
C33_Inv ==
    (fetching = "running" /\ TruthyNumber(totalRows)) => Len(records) < Val(totalRows)

C33_Step ==
    PageArrived(Host) =>
        LET pageData == DataOf(outcome[Host].value)
            latest == LatestTotal(Host)
        IN  /\ records' = records \o pageData
            /\ pageData = << >> => fetching' = "returned"
            /\ TruthyNumber(latest) =>
                  IF fetching' = "running"
                  THEN /\ Len(pageData) >= 1
                       /\ Len(records) < Len(records') /\ Len(records') < Val(latest)
                       /\ Len(calls') = Len(calls) + 1
                       /\ latest = totalRows =>
                             Val(totalRows') - Len(records') < Val(totalRows) - Len(records)
                  ELSE /\ fetching' = "returned"
                       /\ (pageData = << >> \/ Len(records') >= Val(latest))
                       /\ calls' = calls

\* C33: an empty page ends fetchPaginated, and under a declared positive
\* total T the next page is requested only after a page with items and only
\* while fewer than T items are gathered; while T stays in force each further
\* page strictly reduces the distance from the item count to T, so at most T
\* further pages with items are requested.
C33_BoundedByTotal == []C33_Inv /\ [][C33_Step]_vars

\* Three rows are declared and the third page, of one item, brought the
\* count to three: the fetch returned after three requests.
C33_Witness ==
    /\ fetching = "returned"
    /\ server = AnyServer
    /\ totalRows = Some(3)
    /\ Len(calls) = 3
    /\ Len(records) = 3
    /\ Len(DataOf(outcome[Host].value)) = 1
    /\ listOutcome = [kind |-> "ok", value |-> records]

-----------------------------------------------------------------------------
\* The wrapper of the tool handlers (server.ts, lines 87-117).

C31_Inv ==
    /\ resolver = "none" => toolLog = << >>
    /\ resolver # "none" =>
          /\ Len(toolLog) \in {1, 2}
          /\ toolLog[1] = ToolInvoked(resolver)
          /\ Len(toolLog) = 1 <=> found = NoOutcome
          /\ Len(toolLog) = 1 <=> toolOutcome = NoOutcome
    /\ Len(toolLog) = 2 =>
          /\ toolLog[2].tool = resolver
          /\ toolLog[2].message \in {"Tool completed", "Tool failed"}
          /\ toolLog[2].message = "Tool completed" <=> found.kind = "ok"
          /\ toolOutcome = toolHandler(found)
          /\ found.kind # "ok" =>
                /\ toolLog[2].error = found.value
                /\ toolOutcome = found
    /\ (toolOutcome # NoOutcome /\ listOutcome.kind = "error") =>
          toolOutcome = listOutcome

\* The wrapper's records are only ever added at the end, and none follows
\* the second until the tool has returned.
C31_Step ==
    \/ toolLog' = toolLog
    \/ toolLog' = << >> /\ Len(toolLog) = 2
    \/ /\ Len(toolLog) < 2
       /\ Len(toolLog') > Len(toolLog)
       /\ SubSeq(toolLog', 1, Len(toolLog)) = toolLog

\* C31: every call of a wrapped tool logs 'Tool invoked', then exactly one
\* of 'Tool completed', with the handler's result returned as it is, and
\* 'Tool failed', with the error the handler threw rethrown as it is; a
\* failed list never ends in a tool result.
C31_NothingSwallowed == []C31_Inv /\ [][C31_Step]_vars

\* getClient's list threw after a rejected page request: the wrapper logged
\* the invocation and the failure and rethrew the list's error.
C31_Witness ==
    /\ resolver = "getClient"
    /\ fetching = "thrown"
    /\ Len(sent[Host]) >= 1
    /\ Len(toolLog) = 2
    /\ toolLog[2].message = "Tool failed"
    /\ toolOutcome = listOutcome
    /\ toolOutcome.kind = "error"

-----------------------------------------------------------------------------
\* Shutdown of the HTTP entry point (createShutdownHandler, lines 105-123,
\* and the signal handlers of main, lines 226-241).

\* The longest sequence of signals delivered to the process.
MaxSignals == 3

Signals == {"SIGINT", "SIGTERM"}

\* How mcpServer.close() can end.
CloseOutcomes == {"resolved", "rejected"}

\* The signal handler running the shutdown on every signal.
Signal_unguarded(signal) ==
    /\ httpServer.pc # "none"
    /\ Len(httpServer.shutdown.signals) < MaxSignals
    /\ httpServer' =
          [httpServer EXCEPT !.shutdown =
              [@ EXCEPT !.signals = Append(@, signal),
                        !.shuttingDown = TRUE,
                        !.handled = Append(@, signal),
                        !.handler = "closeServer",
                        !.closing = Append(@, "closeServer")]]
    /\ UNCHANGED httpFrame

\* Lines 234-240, and createShutdownHandler up to its first await (lines
\* 110-113): a signal is ignored when shuttingDown is set; otherwise the flag
\* is set and the handler logs the signal and calls closeServer.
Signal(signal) ==
    /\ httpServer.pc # "none"
    /\ Len(httpServer.shutdown.signals) < MaxSignals
    /\ httpServer' =
          IF httpServer.shutdown.shuttingDown
          THEN [httpServer EXCEPT !.shutdown.signals = Append(@, signal)]
          ELSE [httpServer EXCEPT !.shutdown =
                   [@ EXCEPT !.signals = Append(@, signal),
                             !.shuttingDown = TRUE,
                             !.handled = Append(@, signal),
                             !.handler = "closeServer",
                             !.closing = Append(@, "closeServer")]]
    /\ UNCHANGED httpFrame

\* Lines 112-120: closeServer has resolved or rejected (the rejection is
\* caught and logged); closeHttp is called.
CloseServerReturns ==
    /\ httpServer.shutdown.handler = "closeServer"
    /\ \E o \in CloseOutcomes :
          httpServer' =
             [httpServer EXCEPT !.shutdown =
                 [@ EXCEPT !.mcpServer = o,
                           !.handler = "closeHttp",
                           !.closing = Append(@, "closeHttp")]]
    /\ UNCHANGED httpFrame

\* Lines 228-231 and 118-122: the callback of httpServer.close runs once no
\* request is in hand; closeHttp resolves and the handler ends.
CloseHttpReturns ==
    /\ httpServer.shutdown.handler = "closeHttp"
    /\ httpServer.pc # "handling"
    /\ httpServer' = [httpServer EXCEPT !.shutdown.handler = "done", !.pc = "closed"]
    /\ UNCHANGED httpFrame

\* Requests are accepted until httpServer.close has been called.
Serving ==
    /\ "closeHttp" \notin {httpServer.shutdown.closing[i] : i \in DOMAIN httpServer.shutdown.closing}
    /\ HttpRequest

NextShutdown ==
    \/ \E signal \in Signals : Signal(signal)
    \/ CloseServerReturns
    \/ CloseHttpReturns
    \/ Serving
    \/ TransportReturns

SpecShutdown == InitHttp /\ [][NextShutdown]_vars

C37_Inv ==
    LET sd == httpServer.shutdown IN
    /\ sd.shuttingDown <=> sd.signals # << >>
    /\ sd.handled = IF sd.signals = << >> THEN << >> ELSE <<sd.signals[1]>>
    /\ sd.closing \in {<< >>, <<"closeServer">>, <<"closeServer", "closeHttp">>}
    /\ sd.closing = << >> <=> sd.handled = << >>
    /\ sd.handler \in {"closeHttp", "done"} <=> sd.closing = <<"closeServer", "closeHttp">>
    /\ sd.mcpServer # "open" => "closeHttp" \in {sd.closing[i] : i \in DOMAIN sd.closing}

C37_Step ==
    LET sd == httpServer.shutdown IN
    /\ (sd.shuttingDown /\ sd.signals' # sd.signals) =>
          /\ sd.handled' = sd.handled
          /\ sd.closing' = sd.closing
          /\ sd.handler' = sd.handler
    /\ (sd.handler = "closeServer" /\ sd.handler' # "closeServer") =>
          /\ sd.mcpServer' \in CloseOutcomes
          /\ sd.closing' = <<"closeServer", "closeHttp">>
    /\ Len(sd.closing') >= Len(sd.closing)

\* C37: whatever signals arrive, createShutdownHandler runs once, for the
\* first of them, and later signals change nothing; it calls closeServer,
\* then closeHttp, each once, and calls closeHttp whether closeServer
\* resolved or rejected.
C37_ShutdownOnce == []C37_Inv /\ [][C37_Step]_vars

\* SIGINT, SIGTERM and SIGINT arrived, closing the MCP server failed and the
\* HTTP listener was closed all the same, in the one run started by the
\* first SIGINT.
C37_Witness ==
    /\ httpServer.shutdown.signals = <<"SIGINT", "SIGTERM", "SIGINT">>
    /\ httpServer.shutdown.handled = <<"SIGINT">>
    /\ httpServer.shutdown.mcpServer = "rejected"
    /\ httpServer.shutdown.closing = <<"closeServer", "closeHttp">>
    /\ httpServer.shutdown.handler = "done"
    /\ httpServer.pc = "closed"

====
